---- MODULE Spec2Model ----
(***************************************************************************)
(* A model of the projectx-rs node: transaction pool, virtual machine,     *)
(* block validator, blockchain and the server's dispatch loop.             *)
(*                                                                         *)
(* Several specifications share the variables:                             *)
(*   SpecPool   - a TxPool driven by add / clear_pending / flush /         *)
(*                pending_cloned calls                                     *)
(*   Spec       - a Blockchain driven by add_block calls                   *)
(*   SpecServer - one Server draining its RPC channel                      *)
(*   SpecVM     - a VM running programs one instruction at a time          *)
(*   SpecBlock  - a Block built, changed, signed and verified              *)
(*   SpecStamp  - the Server receiving transactions, with every reading    *)
(*                of the clock its handler can take                        *)
(*   SpecNet    - LocalTransports connecting, sending and broadcasting     *)
(*   SpecOffer  - a Blockchain offered blocks of every kind of defect     *)
(*   SpecHash   - a Block built or decoded, changed and hashed             *)
(*   SpecLeader - the Server of the leader receiving transactions          *)
(*   SpecLocks  - the tasks of one Server taking and dropping the guards   *)
(*                of the chain and the pool                                *)
(***************************************************************************)
EXTENDS Integers, Sequences, FiniteSets, TLC

VARIABLES
    headers,         \* Blockchain.headers : Vec<Header>
    contract_state,  \* Blockchain.contract_state : State (key bytes -> value bytes)
    all,             \* TxPool.all : HashMap<Hash, Transaction>
    pending,         \* TxPool.pending : HashMap<Hash, Transaction>
    max_length,      \* TxPool.max_length
    rpc_channel,     \* Server.rpc_channel : queue of inbound RPCs
    spawned,         \* detached tasks the handlers have spawned (sends, broadcasts)
    task,            \* the task running the calls: "running" | "panicked"
    validator_loop,  \* the task of Server::validator_loop: "off" | "ticking" | "panicked"
    quit_channel,    \* Server.quit_channel : queue of quit signals
    machine,         \* the VM a program is run on: data, ip, stack, contract state
    peers,           \* LocalTransport.peers of every transport : address -> addresses
    consume_channel, \* LocalTransport.consume_channel of every transport : queue of RPCs
    locks,           \* Server.chain, Server.mem_pool as Mutex : the tasks queued on each, holder first
    pc,              \* where each task of the server is in its code, and its locals
    last             \* the last call made and what it returned

vars ==
    <<headers, contract_state, all, pending, max_length, rpc_channel, spawned, task,
      validator_loop, quit_channel, machine, peers, consume_channel, locks, pc, last>>

(***************************************************************************)
(* Bounds of the model.                                                    *)
(***************************************************************************)
\* largest max_length a pool of SpecPool is built with
MaxLen == 2
\* the values Instant::now().elapsed().as_nanos() is observed to return
Nanos == {0, 1}
\* the chain of Spec / SpecServer grows up to this height
MaxHeight == 2
\* the RPC channel of SpecServer holds up to this many queued RPCs
MaxQueue == 1
\* up to this many detached tasks of SpecServer are waiting to run
MaxSpawned == 1
\* the inbound queues of SpecNet hold up to this many RPCs together, far below
\* the 1024 of one queue at which a sender would wait
MaxInFlight == 2

(***************************************************************************)
(* Option<T>: None is the empty sequence, Some(x) the one-element one.     *)
(***************************************************************************)
None == <<>>
Some(x) == <<x>>
IsSome(o) == o # <<>>
Unwrap(o) == o[1]

Ok == [ok |-> TRUE, err |-> ""]
Err(e) == [ok |-> FALSE, err |-> e]

(***************************************************************************)
(* Hashes.  A Hash is 32 bytes; Hash::default() is all zero.  SHA-256 is   *)
(* modelled as a polynomial digest of the hashed bytes that is never zero. *)
(***************************************************************************)
ZeroHash == 0

RECURSIVE Digest(_, _)
Digest(bytes, acc) ==
    IF bytes = <<>> THEN acc
    ELSE Digest(Tail(bytes), (acc * 31 + Head(bytes) + 1) % 65521)

Sha256(bytes) == 1 + Digest(bytes, 7)

is_zero(h) == h = ZeroHash

(***************************************************************************)
(* Keys and signatures (crypto/keypair.rs).  A private key is a small      *)
(* number; a signature records who signed which bytes, and verifies        *)
(* against exactly that key and those bytes.                               *)
(***************************************************************************)
PrivateKeys == {1, 2}
public_key(private_key) == 100 + private_key
sign(private_key, data) == [signer |-> public_key(private_key), msg |-> data]
SigVerify(sig, data, pub_key) == sig.signer = pub_key /\ sig.msg = data

(***************************************************************************)
(* Transactions (core/transaction.rs).                                     *)
(***************************************************************************)
\* Transaction::new(data)
NewTransaction(data) ==
    [data |-> data, from |-> None, signature |-> None, hash |-> None, first_seen |-> 0]

\* TxHasher: SHA-256 of the data
TxHasher(tx) == Sha256(tx.data)

calculate_and_cache_hash(tx) ==
    IF tx.hash = None THEN [tx EXCEPT !.hash = Some(TxHasher(tx))] ELSE tx

set_first_seen(tx, first_seen) == [tx EXCEPT !.first_seen = first_seen]

TxSign(tx, private_key) ==
    [tx EXCEPT !.from = Some(public_key(private_key)),
               !.signature = Some(sign(private_key, tx.data))]

TxVerify(tx) ==
    IF tx.signature = None THEN Err("transaction has no signature")
    ELSE IF tx.from = None THEN Err("from has no signature")
    ELSE IF ~SigVerify(Unwrap(tx.signature), tx.data, Unwrap(tx.from))
         THEN Err("transaction has invalid signature")
    ELSE Ok

\* the wire form: hash and first_seen are #[serde(skip)]
OptKeyBytes(o) == IF o = None THEN <<0>> ELSE <<1, Unwrap(o)>>
OptSigBytes(o) ==
    IF o = None THEN <<0>> ELSE <<1, Unwrap(o).signer, Sha256(Unwrap(o).msg)>>
TxEncode(tx) ==
    <<Len(tx.data)>> \o tx.data \o OptKeyBytes(tx.from) \o OptSigBytes(tx.signature)
TxDecode(wire) ==
    [data |-> wire.data, from |-> wire.from, signature |-> wire.signature,
     hash |-> None, first_seen |-> 0]

(***************************************************************************)
(* The transaction pool (network/tx_pool.rs).  A HashMap is a function     *)
(* from the hashes it holds; its iteration order is not determined by its  *)
(* contents, so every traversal takes an order of the keys as input.       *)
(***************************************************************************)
EmptyMap == [h \in {} |-> 0]
MapInsert(map, k, v) == [h \in (DOMAIN map) \cup {k} |-> IF h = k THEN v ELSE map[h]]
MapRemove(map, k) == [h \in (DOMAIN map) \ {k} |-> map[h]]
MapLen(map) == Cardinality(DOMAIN map)

\* the orders in which a HashMap with these keys may be iterated
Orders(keys) ==
    {o \in [1..Cardinality(keys) -> keys] :
        \A i, j \in 1..Cardinality(keys) : i # j => o[i] # o[j]}

\* slice::sort_by_key(|a| a.first_seen()): a stable sort
InsertByKey(sorted, tx) ==
    LET k == Cardinality({i \in 1..Len(sorted) : sorted[i].first_seen <= tx.first_seen})
    IN SubSeq(sorted, 1, k) \o <<tx>> \o SubSeq(sorted, k + 1, Len(sorted))

RECURSIVE sort_by_key(_)
sort_by_key(txs) ==
    IF txs = <<>> THEN <<>>
    ELSE InsertByKey(sort_by_key(SubSeq(txs, 1, Len(txs) - 1)), txs[Len(txs)])

\* TxMapSorter::new(map).transactions
TxMapSorter(map, order) == sort_by_key([i \in 1..Len(order) |-> map[order[i]]])

\* TxPool::add with the capacity test written as len > max_length
TxPoolAdd_NoEvict(p_all, p_pending, p_max, tx0, order) ==
    LET tx == calculate_and_cache_hash(tx0)
        tx_hash == Unwrap(tx.hash)
        full == MapLen(p_all) > p_max
        sorted == TxMapSorter(p_all, order)
        oldest == IF full THEN Some(Unwrap(sorted[1].hash)) ELSE None
        all1 == IF full THEN MapRemove(p_all, Unwrap(oldest)) ELSE p_all
        has == tx_hash \in DOMAIN all1
    IN [all |-> IF has THEN all1 ELSE MapInsert(all1, tx_hash, tx),
        pending |-> IF has THEN p_pending ELSE MapInsert(p_pending, tx_hash, tx),
        evicted |-> oldest,
        res |-> Ok]

\* TxPool::add evicting all().last() instead of all().first()
TxPoolAdd_EvictNewest(p_all, p_pending, p_max, tx0, order) ==
    LET tx == calculate_and_cache_hash(tx0)
        tx_hash == Unwrap(tx.hash)
        full == MapLen(p_all) = p_max
        sorted == TxMapSorter(p_all, order)
    IN IF full /\ sorted = <<>>
       THEN [all |-> p_all, pending |-> p_pending, evicted |-> None,
             res |-> Err("could not find first block in all transactions")]
       ELSE LET oldest == IF full THEN Some(Unwrap(sorted[Len(sorted)].hash)) ELSE None
                all1 == IF full THEN MapRemove(p_all, Unwrap(oldest)) ELSE p_all
                has == tx_hash \in DOMAIN all1
            IN [all |-> IF has THEN all1 ELSE MapInsert(all1, tx_hash, tx),
                pending |-> IF has THEN p_pending ELSE MapInsert(p_pending, tx_hash, tx),
                evicted |-> oldest,
                res |-> Ok]

\* TxPool::add; the result carries the new maps and the hash it evicted
TxPoolAdd(p_all, p_pending, p_max, tx0, order) ==
    LET tx == calculate_and_cache_hash(tx0)
        tx_hash == Unwrap(tx.hash)
        full == MapLen(p_all) = p_max
        sorted == TxMapSorter(p_all, order)
    IN IF full /\ sorted = <<>>
       THEN [all |-> p_all, pending |-> p_pending, evicted |-> None,
             res |-> Err("could not find first block in all transactions")]
       ELSE LET oldest == IF full THEN Some(Unwrap(sorted[1].hash)) ELSE None
                all1 == IF full THEN MapRemove(p_all, Unwrap(oldest)) ELSE p_all
                has == tx_hash \in DOMAIN all1
            IN [all |-> IF has THEN all1 ELSE MapInsert(all1, tx_hash, tx),
                pending |-> IF has THEN p_pending ELSE MapInsert(p_pending, tx_hash, tx),
                evicted |-> oldest,
                res |-> Ok]

\* TxPool::has
TxPoolHas(p_all, hash) == hash \in DOMAIN p_all

\* TxPool::flush: the new (all, pending)
TxPoolFlush(p_all, p_pending) == [all |-> EmptyMap, pending |-> p_pending]

\* TxPool::clear_pending: the new (all, pending)
TxPoolClearPending(p_all, p_pending) == [all |-> p_all, pending |-> EmptyMap]

\* TxPool::pending_cloned
pending_cloned(p_pending, order) == TxMapSorter(p_pending, order)

(***************************************************************************)
(* The virtual machine (core/vm.rs).                                       *)
(***************************************************************************)
PushInt == 10
Add == 11
PushByte == 12
Pack == 13
Sub == 14
Store == 15
Get == 174
Mul == 234
Div == 253
Instructions == {PushInt, Add, PushByte, Pack, Sub, Store, Get, Mul, Div}

\* StackItem: Byte(u8), Int(i32), BytesN([u8; N]) for N in 4, 8, 16, 32, 64:
\* the variant, the number of a Byte or Int, the array of a BytesN
ItemByte(b) == [t |-> "Byte", v |-> b, bytes |-> <<>>]
ItemInt(i) == [t |-> "Int", v |-> i, bytes |-> <<>>]
ItemBytes(b) == [t |-> "Bytes", v |-> 0, bytes |-> b]

I32Max == 2147483647
I32Min == -I32Max - 1
StackCap == 128

\* `as u8` of an i32
AsU8(i) == i % 256

\* StackItem::to_bytes
to_bytes(item) == IF item.t = "Bytes" THEN item.bytes ELSE <<AsU8(item.v)>>

\* TryInto<u8> for StackItem
try_into_u8(item) ==
    IF item.t = "Bytes" THEN [ok |-> FALSE, v |-> 0] ELSE [ok |-> TRUE, v |-> AsU8(item.v)]

\* TryInto<usize> for StackItem: a negative Int becomes a value above every
\* width, written here as -1
try_into_usize(item) ==
    IF item.t = "Bytes" THEN [ok |-> FALSE, v |-> 0]
    ELSE [ok |-> TRUE, v |-> IF item.v < 0 THEN -1 ELSE item.v]

\* the i32 operation l + r, l - r, l * r, l / r: "ok" with the value, "panic"
\* for a division by zero or a result outside i32
Abs(i) == IF i < 0 THEN -i ELSE i
I32Op(op, l, r) ==
    CASE op = Add ->
            IF (r > 0 /\ l > I32Max - r) \/ (r < 0 /\ l < I32Min - r)
            THEN [st |-> "panic", v |-> 0] ELSE [st |-> "ok", v |-> l + r]
      [] op = Sub ->
            IF (r < 0 /\ l > I32Max + r) \/ (r > 0 /\ l < I32Min + r)
            THEN [st |-> "panic", v |-> 0] ELSE [st |-> "ok", v |-> l - r]
      [] op = Mul ->
            IF l = 0 \/ r = 0 THEN [st |-> "ok", v |-> 0]
            ELSE IF Abs(l) > I32Max \div Abs(r)
            THEN [st |-> "panic", v |-> 0] ELSE [st |-> "ok", v |-> l * r]
      [] op = Div ->
            IF r = 0 \/ (l = I32Min /\ r = -1) THEN [st |-> "panic", v |-> 0]
            ELSE LET q == Abs(l) \div Abs(r)
                 IN [st |-> "ok", v |-> IF (l < 0) = (r < 0) THEN q ELSE -q]

\* StackItem::add, sub, mul, div: a_b_as_int ("err" for a Bytes operand) followed
\* by the i32 operation with self on the left
Arith_RhsLeft(kind, self, other) ==
    IF self.t = "Bytes" \/ other.t = "Bytes" THEN [st |-> "err", v |-> 0]
    ELSE I32Op(kind, other.v, self.v)
Arith(op, lhs, rhs) ==
    IF lhs.t = "Bytes" \/ rhs.t = "Bytes" THEN [st |-> "err", v |-> 0]
    ELSE I32Op(op, lhs.v, rhs.v)

\* Stack::pop: the top item, ItemByte(0) when nothing was pushed
StackTop(stack) == IF stack = <<>> THEN ItemByte(0) ELSE Head(stack)
StackPop(stack) == IF stack = <<>> THEN <<>> ELSE Tail(stack)
\* Stack::push: the item at the bottom of a full stack is dropped
StackPush(stack, item) ==
    <<item>> \o (IF Len(stack) >= StackCap THEN SubSeq(stack, 1, StackCap - 1) ELSE stack)

\* VM::new
NewVM(data, state) ==
    [data |-> data, ip |-> 0, stack |-> <<>>, state |-> state, status |-> "running",
     err |-> ""]
Fail(vm, status, err) == [vm EXCEPT !.status = status, !.err = err]
Finish(vm) == [vm EXCEPT !.status = "ok"]

\* the width of the byte array that holds n bytes; 0 when there is none
Width_Below(count) ==
    IF count < 4 THEN 4 ELSE IF count < 8 THEN 8 ELSE IF count < 16 THEN 16
    ELSE IF count < 32 THEN 32 ELSE IF count < 64 THEN 64 ELSE 0
Width(n) ==
    IF n <= 4 THEN 4 ELSE IF n <= 8 THEN 8 ELSE IF n <= 16 THEN 16
    ELSE IF n <= 32 THEN 32 ELSE IF n <= 64 THEN 64 ELSE 0
ZeroPad(bytes, width) == [i \in 1..width |-> IF i <= Len(bytes) THEN bytes[i] ELSE 0]

\* VM::get_bytes: pops n items into the first n places (Stack::pop gives Byte(0)
\* below the bottom of the stack); the first item that is an array ends it with
\* an error, that item popped
get_bytes(stack, n, acc) ==
    LET Item(i) == IF i <= Len(stack) THEN stack[i] ELSE ItemByte(0)
        After(k) == IF k >= Len(stack) THEN <<>> ELSE SubSeq(stack, k + 1, Len(stack))
        arrays == {i \in 1..n : ~try_into_u8(Item(i)).ok}
        Until(k) == acc \o [i \in 1..k |-> try_into_u8(Item(i)).v]
    IN IF arrays = {} THEN [ok |-> TRUE, stack |-> After(n), bytes |-> Until(n)]
       ELSE \* the loop stops at the first array
            LET first == CHOOSE i \in arrays : \A k \in arrays : i <= k
            IN [ok |-> FALSE, stack |-> After(first), bytes |-> Until(first - 1)]

\* VM::exec, Store: the key is popped first, the value second
exec_store_ValueFirst(m0) ==
    LET value == StackTop(m0.stack)
        key == StackTop(StackPop(m0.stack))
    IN [m0 EXCEPT !.stack = StackPop(StackPop(m0.stack)),
                  !.state = MapInsert(m0.state, to_bytes(key), to_bytes(value))]
exec_store(vm) ==
    LET key == StackTop(vm.stack)
        value == StackTop(StackPop(vm.stack))
    IN [vm EXCEPT !.stack = StackPop(StackPop(vm.stack)),
                  !.state = MapInsert(vm.state, to_bytes(key), to_bytes(value))]

\* VM::exec
exec(vm, instr) ==
    LET a == StackTop(vm.stack)
        s1 == StackPop(vm.stack)
        b == StackTop(s1)
        s2 == StackPop(s1)
        i == IF vm.ip = 0 THEN 0 ELSE vm.ip - 1
    IN CASE instr = Get ->
                LET key == to_bytes(a)
                IN IF key \notin DOMAIN vm.state
                   THEN Fail([vm EXCEPT !.stack = s1], "err", "given key not found")
                   ELSE LET value == vm.state[key]
                            n == Len(value)
                        IN IF n = 1 THEN [vm EXCEPT !.stack = StackPush(s1, ItemByte(value[1]))]
                           ELSE IF Width(n) = 0
                           THEN Fail([vm EXCEPT !.stack = s1], "err",
                                     "can't put more than 64 bytes into byte array on vm stack")
                           ELSE [vm EXCEPT !.stack = StackPush(s1, ItemBytes(ZeroPad(value, Width(n))))]
         [] instr = Store -> exec_store(vm)
         [] instr = Pack ->
                LET n == try_into_usize(a)
                IN IF ~n.ok THEN Fail([vm EXCEPT !.stack = s1], "err", "can't convert to usize")
                   ELSE IF n.v < 0 \/ Width(n.v) = 0
                   THEN Fail([vm EXCEPT !.stack = s1], "err",
                             "can't put more than 64 bytes into byte array on vm stack")
                   ELSE LET got == get_bytes(s1, n.v, <<>>)
                        IN IF ~got.ok
                           THEN Fail([vm EXCEPT !.stack = got.stack], "err", "can't convert to u8")
                           ELSE [vm EXCEPT !.stack =
                                    StackPush(got.stack, ItemBytes(ZeroPad(got.bytes, Width(n.v))))]
         [] instr = PushInt -> [vm EXCEPT !.stack = StackPush(vm.stack, ItemInt(vm.data[i + 1]))]
         [] instr = PushByte -> [vm EXCEPT !.stack = StackPush(vm.stack, ItemByte(vm.data[i + 1]))]
         [] instr \in {Add, Sub, Mul, Div} ->
                LET c == Arith(instr, a, b)
                IN IF c.st = "ok" THEN [vm EXCEPT !.stack = StackPush(s2, ItemInt(c.v))]
                   ELSE Fail([vm EXCEPT !.stack = s2], c.st,
                             IF c.st = "err" THEN "can't do arithmetic with these stack items"
                             ELSE "arithmetic panic")

\* one iteration of the loop of VM::run: the byte at ip is executed when it is an
\* instruction, ip moves on, and the loop ends behind the last byte.  Reading
\* data[ip] of an empty program panics.
run_step(vm) ==
    IF vm.ip >= Len(vm.data) THEN Fail(vm, "panic", "index out of bounds")
    ELSE LET byte == vm.data[vm.ip + 1]
             Moved(vm2) == IF vm2.ip > Len(vm2.data) - 1 THEN Finish(vm2) ELSE vm2
             After(vm1) == IF vm1.status # "running" THEN vm1
                           ELSE Moved([vm1 EXCEPT !.ip = vm1.ip + 1])
         IN After(IF byte \in Instructions THEN exec(vm, byte) ELSE vm)

\* VM::run: the machine when run returns ("ok", "err") or panics ("panic")
RECURSIVE run(_)
run(vm) ==
    LET Loop(vm1) == IF vm1.status # "running" THEN vm1 ELSE run(vm1)
    IN Loop(run_step(vm))

(***************************************************************************)
(* Headers and blocks (core/block.rs, core/hasher.rs).                     *)
(***************************************************************************)
\* Header::bytes: the fixed-width fields in declaration order
HeaderBytes(header) ==
    <<header.version, header.data_hash, header.prev_block_hash, header.timestamp,
      header.height>>

\* BlockHasher: SHA-256 of the header bytes
BlockHasher(header) == Sha256(HeaderBytes(header))

RECURSIVE EncodeTxs(_)
EncodeTxs(txx) == IF txx = <<>> THEN <<>> ELSE TxEncode(Head(txx)) \o EncodeTxs(Tail(txx))

calculate_data_hash(txx) == Sha256(EncodeTxs(txx))

\* Block::new
NewBlock(header, txx) ==
    [header |-> header, transactions |-> txx, validator |-> None, signature |-> None,
     hash |-> ZeroHash]

\* Block::from_prev_header, `now` being the timestamp it reads
from_prev_header(ph, txx, now) ==
    NewBlock([version |-> ph.version,
              data_hash |-> calculate_data_hash(txx),
              prev_block_hash |-> BlockHasher(ph),
              timestamp |-> now,
              height |-> ph.height + 1], txx)

\* Block::genesis, with the random data hash and the timestamp it draws
genesis(random_hash, now) ==
    NewBlock([version |-> 1, data_hash |-> random_hash, prev_block_hash |-> ZeroHash,
              timestamp |-> now, height |-> 0], <<>>)

\* Block::sign
BlockSign(b, private_key) ==
    [b EXCEPT !.validator = Some(public_key(private_key)),
              !.signature = Some(sign(private_key, HeaderBytes(b.header)))]

\* Block::verify without the comparison of the data hash
BlockVerify_NoDataHash(blk) ==
    LET bad == {i \in 1..Len(blk.transactions) : ~TxVerify(blk.transactions[i]).ok}
        first_bad == CHOOSE i \in bad : \A j \in bad : i <= j
    IN IF blk.signature = None THEN Err("block has no signature")
       ELSE IF blk.validator = None THEN Err("block has no validator (public_key)")
       ELSE IF ~SigVerify(Unwrap(blk.signature), HeaderBytes(blk.header), Unwrap(blk.validator))
            THEN Err("block has invalid signature")
       ELSE IF bad # {} THEN TxVerify(blk.transactions[first_bad])
       ELSE Ok

\* Block::add_transaction
add_transaction(b, tx) == [b EXCEPT !.transactions = Append(@, tx)]

\* Block::verify
BlockVerify(b) ==
    LET bad == {i \in 1..Len(b.transactions) : ~TxVerify(b.transactions[i]).ok}
        first_bad == CHOOSE i \in bad : \A j \in bad : i <= j
    IN IF b.signature = None THEN Err("block has no signature")
       ELSE IF b.validator = None THEN Err("block has no validator (public_key)")
       ELSE IF ~SigVerify(Unwrap(b.signature), HeaderBytes(b.header), Unwrap(b.validator))
            THEN Err("block has invalid signature")
       ELSE IF bad # {} THEN TxVerify(b.transactions[first_bad])
       ELSE IF calculate_data_hash(b.transactions) # b.header.data_hash
            THEN Err("block has invalid data hash")
       ELSE Ok

(***************************************************************************)
(* The blockchain and its validator (core/blockchain.rs,                   *)
(* core/validator.rs).  The operators take the header list and the         *)
(* contract state and return the new ones.                                 *)
(***************************************************************************)
\* Blockchain::len, Blockchain::height
len(p_headers) == Len(p_headers)
height(p_headers) == Len(p_headers) - 1

\* Blockchain::has_block
has_block(p_headers, h) == h <= height(p_headers)

\* Blockchain::get_header (the header list is indexed from 0)
get_header(p_headers, h) == p_headers[h + 1]

\* BlockValidator::validate_block without the test of the previous hash
validate_block_NoPrevHash(p_headers, b) ==
    IF has_block(p_headers, b.header.height) THEN Err("block already known")
    ELSE IF b.header.height # height(p_headers) + 1 THEN Err("block too high")
    ELSE BlockVerify(b)

\* BlockValidator::validate_block calling Block::verify before the other tests
validate_block_VerifyFirst(p_hdrs, blk) ==
    IF ~BlockVerify(blk).ok THEN BlockVerify(blk)
    ELSE IF has_block(p_hdrs, blk.header.height) THEN Err("block already known")
    ELSE IF blk.header.height # height(p_hdrs) + 1 THEN Err("block too high")
    ELSE IF BlockHasher(get_header(p_hdrs, blk.header.height - 1)) # blk.header.prev_block_hash
         THEN Err("the hash of the previous block is invalid")
    ELSE Ok

\* BlockValidator::validate_block
validate_block(p_headers, b) ==
    IF has_block(p_headers, b.header.height) THEN Err("block already known")
    ELSE IF b.header.height # height(p_headers) + 1 THEN Err("block too high")
    ELSE IF BlockHasher(get_header(p_headers, b.header.height - 1)) # b.header.prev_block_hash
         THEN Err("the hash of the previous block is invalid")
    ELSE BlockVerify(b)

\* the errors of validate_block, and those among them that Block::verify reports
VerifyErrors ==
    {"block has no signature", "block has no validator (public_key)",
     "block has invalid signature", "transaction has no signature",
     "from has no signature", "transaction has invalid signature",
     "block has invalid data hash"}
ValidatorErrors ==
    {"block already known", "block too high", "the hash of the previous block is invalid"}
    \cup VerifyErrors

\* the loop of add_block over the transactions: each runs in a new VM on the
\* shared contract state; the first failure ends the loop.  With info logging on,
\* the log line evaluates tx.hash(), which panics on a hash that is not cached.
RECURSIVE run_transactions(_, _, _)
run_transactions(txx, state, log_info) ==
    IF txx = <<>> THEN [status |-> "ok", err |-> "", state |-> state]
    ELSE IF log_info /\ Head(txx).hash = None
         THEN [status |-> "panic", err |-> "transaction hash not calculated", state |-> state]
    ELSE LET After(vm) ==
                 IF vm.status = "ok" THEN run_transactions(Tail(txx), vm.state, log_info)
                 ELSE [status |-> vm.status, err |-> vm.err, state |-> vm.state]
         IN After(run(NewVM(Head(txx).data, state)))

\* Blockchain::add_block_without_validation writing the header over the tip
add_block_without_validation_Overwrite(p_headers, b) ==
    [p_headers EXCEPT ![Len(p_headers)] = b.header]

\* Blockchain::add_block_without_validation
add_block_without_validation(p_headers, b) == Append(p_headers, b.header)

Panicked == [ok |-> FALSE, err |-> "panicked"]

\* Blockchain::add_block pushing the header before the validator has run
add_block_PushFirst(p_headers, state, b, log_info) ==
    LET Executed(ran) ==
            IF ran.status = "ok"
            THEN [headers |-> add_block_without_validation(p_headers, b),
                  state |-> ran.state, res |-> Ok]
            ELSE [headers |-> add_block_without_validation(p_headers, b),
                  state |-> ran.state,
                  res |-> IF ran.status = "panic" THEN Panicked ELSE Err(ran.err)]
        Validated(valid) ==
            IF ~valid.ok
            THEN [headers |-> add_block_without_validation(p_headers, b), state |-> state,
                  res |-> valid]
            ELSE Executed(run_transactions(b.transactions, state, log_info))
    IN Validated(validate_block(p_headers, b))

\* Blockchain::add_block
add_block(p_headers, state, b, log_info) ==
    LET Executed(ran) ==
            IF ran.status = "ok"
            THEN [headers |-> add_block_without_validation(p_headers, b),
                  state |-> ran.state, res |-> Ok]
            ELSE [headers |-> p_headers, state |-> ran.state,
                  res |-> IF ran.status = "panic" THEN Panicked ELSE Err(ran.err)]
        Validated(valid) ==
            IF ~valid.ok THEN [headers |-> p_headers, state |-> state, res |-> valid]
            ELSE Executed(run_transactions(b.transactions, state, log_info))
    IN Validated(validate_block(p_headers, b))

(***************************************************************************)
(* The record of the last call.                                            *)
(***************************************************************************)
Call(op, arg, res, out) == [op |-> op, arg |-> arg, res |-> res, out |-> out]
NoCall == Call("new", None, Ok, None)

(***************************************************************************)
(* SpecPool: a TxPool built with some max_length and then called.          *)
(***************************************************************************)
PoolData == {<<1>>, <<2>>, <<3>>}
PoolTxs ==
    {[NewTransaction(d) EXCEPT !.first_seen = fs, !.hash = h] :
        d \in PoolData, fs \in Nanos, h \in {None}}
    \cup {calculate_and_cache_hash(NewTransaction(<<1>>))}

InitPool ==
    /\ max_length \in 0..MaxLen
    /\ all = EmptyMap
    /\ pending = EmptyMap
    /\ headers = <<>>
    /\ contract_state = EmptyMap
    /\ rpc_channel = <<>>
    /\ spawned = <<>>
    /\ validator_loop = "off"
    /\ quit_channel = <<>>
    /\ task = "running"
    /\ machine = None
    /\ peers = EmptyMap
    /\ consume_channel = EmptyMap
    /\ locks = None
    /\ pc = None
    /\ last = NoCall

PoolAdd ==
    \E tx \in PoolTxs, order \in Orders(DOMAIN all) :
        LET r == TxPoolAdd(all, pending, max_length, tx, order)
        IN /\ all' = r.all
           /\ pending' = r.pending
           /\ last' = Call("add", tx, r.res, r.evicted)
           /\ UNCHANGED <<machine, peers, consume_channel, locks, pc,
                          max_length, headers, contract_state, rpc_channel, spawned, task,
                        validator_loop, quit_channel>>

PoolClearPending ==
    LET r == TxPoolClearPending(all, pending)
    IN /\ all' = r.all
       /\ pending' = r.pending
       /\ last' = Call("clear_pending", None, Ok, None)
       /\ UNCHANGED <<machine, peers, consume_channel, locks, pc,
                      max_length, headers, contract_state, rpc_channel, spawned, task,
                        validator_loop, quit_channel>>

PoolFlush ==
    LET r == TxPoolFlush(all, pending)
    IN /\ all' = r.all
       /\ pending' = r.pending
       /\ last' = Call("flush", None, Ok, None)
       /\ UNCHANGED <<machine, peers, consume_channel, locks, pc,
                      max_length, headers, contract_state, rpc_channel, spawned, task,
                        validator_loop, quit_channel>>

PoolPendingCloned ==
    \E order \in Orders(DOMAIN pending) :
        /\ last' = Call("pending_cloned", None, Ok, pending_cloned(pending, order))
        /\ UNCHANGED <<machine, peers, consume_channel, locks, pc,
                       all, pending, max_length, headers, contract_state,
                       rpc_channel, spawned, task, validator_loop,
                       quit_channel>>

NextPool == PoolAdd \/ PoolClearPending \/ PoolFlush \/ PoolPendingCloned

SpecPool == InitPool /\ [][NextPool]_vars

TxPoolLen == MapLen(all)
pending_count == MapLen(pending)

(***************************************************************************)
(* Claims about the pool, checked under SpecPool.                          *)
(***************************************************************************)
\* the step is an add call of a transaction whose hash is in `all`
AddOfPresent == last'.op = "add" /\ TxHasher(last'.arg) \in DOMAIN all
\* the step is an add call of a transaction whose hash is not in `all`
AddOfNew == last'.op = "add" /\ TxHasher(last'.arg) \notin DOMAIN all
\* e holds a minimal first_seen among the entries of `all`
IsOldest(e) == \A k \in DOMAIN all : all[e].first_seen <= all[k].first_seen
\* the step inserts the added transaction, hash cached, into both maps of `from_all`
InsertsInto(from_all) ==
    LET tx == calculate_and_cache_hash(last'.arg)
    IN /\ all' = MapInsert(from_all, TxHasher(tx), tx)
       /\ pending' = MapInsert(pending, TxHasher(tx), tx)
AddEffect ==
    IF MapLen(all) = max_length
    THEN \E e \in DOMAIN all : IsOldest(e) /\ InsertsInto(MapRemove(all, e))
    ELSE InsertsInto(all)

\* C6: after any sequence of add, clear_pending and flush calls on a pool built
\* with any max_length, len() never exceeds max_length.
C6_LenBounded == TxPoolLen <= max_length
\* an add on a full pool of the largest capacity has evicted an entry
C6_Witness ==
    /\ last.op = "add" /\ last.res.ok /\ IsSome(last.out)
    /\ max_length = MaxLen /\ TxPoolLen = max_length

\* C7: add of a transaction whose hash is already in `all` changes neither
\* `all` nor `pending`, also when the pool is full.
C7_AddPresentNoOp == [][AddOfPresent => (all' = all /\ pending' = pending)]_vars

\* C8 as stated: add of a transaction not present removes one oldest entry when
\* |all| = max_length and then inserts into both maps; otherwise it only inserts.
C8_AddNewAsStated == [][AddOfNew => AddEffect]_vars
\* C8 amended: the same on a pool whose max_length is at least 1; on a pool of
\* max_length 0 add fails and changes nothing.
C8_AddNew ==
    [][AddOfNew =>
         IF max_length >= 1 THEN AddEffect /\ last'.res.ok
         ELSE all' = all /\ pending' = pending /\ ~last'.res.ok]_vars
\* an add of a new transaction on a full pool evicted an entry and is now held
C8_Witness ==
    /\ last.op = "add" /\ last.res.ok /\ IsSome(last.out)
    /\ Unwrap(last.out) \notin DOMAIN all
    /\ TxHasher(last.arg) \in DOMAIN all /\ TxHasher(last.arg) \in DOMAIN pending
    /\ TxPoolLen = max_length

\* C9: pending_cloned() returns every pending transaction exactly once, in
\* ascending first_seen order, equal first_seen in ascending hash order.
C9_PendingOrder ==
    last.op = "pending_cloned" =>
        LET out == last.out
        IN /\ Len(out) = pending_count
           /\ \A h \in DOMAIN pending : \E i \in 1..Len(out) : out[i] = pending[h]
           /\ \A i, j \in 1..Len(out) :
                i < j => \/ out[i].first_seen < out[j].first_seen
                         \/ /\ out[i].first_seen = out[j].first_seen
                            /\ Unwrap(out[i].hash) < Unwrap(out[j].hash)

\* C10: flush() empties both maps: afterwards len() = 0, pending_count() = 0
\* and has(h) is false for every hash.
C10_FlushEmptiesBoth ==
    last.op = "flush" =>
        /\ TxPoolLen = 0
        /\ pending_count = 0
        /\ \A tx \in PoolTxs : ~TxPoolHas(all, TxHasher(tx))

(***************************************************************************)
(* The blocks offered to add_block.  Each is built on the current tip the  *)
(* way Block::from_prev_header builds it, then given the height, previous  *)
(* hash and data hash tried, signed (or not), and possibly changed after   *)
(* signing.                                                                *)
(***************************************************************************)
TxKey == 1
ProgStore == <<5, PushInt, 70, PushByte, 1, PushInt, Pack, Store>>
ProgGetAbsent == <<9, PushInt, Get>>
ProgStoreThenFail == <<7, PushInt, 8, PushInt, Store, 9, PushInt, Get>>
ProgDivZero == <<0, PushInt, 1, PushInt, Div>>
ProgEmpty == <<>>

SignedTx(data) == TxSign(NewTransaction(data), TxKey)

TxLists ==
    {<<>>,
     <<SignedTx(ProgStore)>>,
     <<SignedTx(ProgStore), SignedTx(ProgGetAbsent)>>,
     <<SignedTx(ProgStoreThenFail)>>,
     <<SignedTx(ProgEmpty)>>,
     <<SignedTx(ProgDivZero)>>,
     <<NewTransaction(ProgStore)>>}

\* a hash that is the hash of nothing in the model
WrongHash == 65530

SigModes == {"unsigned", "signed", "validator replaced", "changed after signing"}

Signed(b, mode) ==
    CASE mode = "unsigned" -> b
      [] mode = "signed" -> BlockSign(b, 1)
      [] mode = "validator replaced" ->
            [BlockSign(b, 1) EXCEPT !.validator = Some(public_key(2))]
      [] mode = "changed after signing" ->
            LET sb == BlockSign(b, 1)
            IN [sb EXCEPT !.header.timestamp = sb.header.timestamp + 1]

\* the blocks a correct producer could offer on this tip
GoodBlocks(p_headers) ==
    LET tip == p_headers[Len(p_headers)]
    IN {BlockSign(from_prev_header(tip, txx, now), k) :
            txx \in TxLists, now \in Nanos, k \in PrivateKeys}

\* blocks off the rules: any height up to two above the tip, a wrong previous
\* hash, a wrong data hash, a missing or invalid signature
OddBlocks(p_headers) ==
    LET tip == p_headers[Len(p_headers)]
    IN {Signed([from_prev_header(tip, <<SignedTx(ProgStore)>>, 0) EXCEPT
                    !.header.height = h,
                    !.header.prev_block_hash = IF good_prev THEN @ ELSE ZeroHash,
                    !.header.data_hash = IF good_data THEN @ ELSE WrongHash], mode) :
            h \in 0..(Len(p_headers) + 1),
            good_prev \in BOOLEAN, good_data \in BOOLEAN, mode \in SigModes}

Candidates(p_headers) == GoodBlocks(p_headers) \cup OddBlocks(p_headers)

\* the calls tried: every candidate with info logging off, the producer's blocks
\* with it on as well
Offers(p_headers) ==
    {<<b, FALSE>> : b \in Candidates(p_headers)}
    \cup {<<b, TRUE>> : b \in GoodBlocks(p_headers)}

(***************************************************************************)
(* Spec: a Blockchain built by Blockchain::new on a genesis block and      *)
(* then offered blocks through add_block.  A call that panics ends the     *)
(* calling task.                                                           *)
(***************************************************************************)
RandomHashes == {21, 22}

Init ==
    /\ \E random_hash \in RandomHashes, now \in Nanos :
          headers = add_block_without_validation(<<>>, genesis(random_hash, now))
    /\ contract_state = EmptyMap
    /\ all = EmptyMap
    /\ pending = EmptyMap
    /\ max_length = 0
    /\ rpc_channel = <<>>
    /\ spawned = <<>>
    /\ validator_loop = "off"
    /\ quit_channel = <<>>
    /\ task = "running"
    /\ machine = None
    /\ peers = EmptyMap
    /\ consume_channel = EmptyMap
    /\ locks = None
    /\ pc = None
    /\ last = NoCall

AddBlock ==
    /\ task = "running"
    /\ \E offer \in Offers(headers) :
          \E r \in {add_block(headers, contract_state, offer[1], offer[2])} :
             /\ r.res.ok => height(headers) < MaxHeight
             /\ headers' = r.headers
             /\ contract_state' = r.state
             /\ task' = IF r.res = Panicked THEN "panicked" ELSE task
             /\ last' = Call("add_block", None, r.res, None)
    /\ UNCHANGED <<machine, peers, consume_channel, locks, pc,
                   all, pending, max_length, rpc_channel, spawned, validator_loop,
                   quit_channel>>

\* the first blocks of a leader: another Server, which Server::new built on a
\* genesis block of its own, creates its block at height 1 on that genesis block
LeaderGenesis == {genesis(random_hash, now) : random_hash \in RandomHashes, now \in Nanos}
LeaderBlock(g, now) == BlockSign(from_prev_header(g.header, <<>>, now), 1)

\* a follower still at height 0 is offered the first block of a leader; the call
\* is recorded with the header of the leader's genesis block
AddLeaderBlock ==
    /\ task = "running"
    /\ height(headers) = 0
    /\ \E g \in LeaderGenesis, now \in Nanos :
          \E r \in {add_block(headers, contract_state, LeaderBlock(g, now), FALSE)} :
             /\ headers' = r.headers
             /\ contract_state' = r.state
             /\ task' = IF r.res = Panicked THEN "panicked" ELSE task
             /\ last' = Call("add_block", Some(g.header), r.res, None)
    /\ UNCHANGED <<machine, peers, consume_channel, locks, pc,
                   all, pending, max_length, rpc_channel, spawned, validator_loop,
                   quit_channel>>

Next == AddBlock \/ AddLeaderBlock

Spec == Init /\ [][Next]_vars


(***************************************************************************)
(* Claims about the blockchain, checked under Spec.                        *)
(***************************************************************************)
Rejected == last.op = "add_block" /\ ~last.res.ok
RejectedByValidator == Rejected /\ last.res.err \in ValidatorErrors
RejectedByVM == Rejected /\ last.res.err \notin ValidatorErrors /\ last.res # Panicked

\* C1: after any sequence of add_block calls, accepted or rejected, every stored
\* header at index h >= 1 has height h and a prev_block_hash equal to the hash
\* of the header stored at index h - 1 (index h is place h + 1 of the sequence).
C1_ChainInvariant ==
    \A h \in 1..(Len(headers) - 1) :
        /\ headers[h + 1].height = h
        /\ headers[h + 1].prev_block_hash = BlockHasher(headers[h])
C1_Witness == Len(headers) = MaxHeight + 1 /\ RejectedByValidator

\* C2: the header list is append-only: every step leaves it unchanged or appends
\* exactly one header at its end; it always holds at least the genesis header;
\* height() is len - 1, is 0 right after new(), and never decreases.
C2_AppendOnly ==
    /\ height(headers) = 0
    /\ [](len(headers) >= 1 /\ height(headers) = len(headers) - 1)
    /\ [][/\ \/ headers' = headers
             \/ /\ Len(headers') = Len(headers) + 1
                /\ SubSeq(headers', 1, Len(headers)) = headers
                /\ last'.op = "add_block" /\ last'.res.ok
          /\ height(headers') >= height(headers)]_vars
C2_Witness == Len(headers) = MaxHeight + 1 /\ last.op = "add_block" /\ last.res.ok

\* C3: when add_block rejects a block because its height is already known, is
\* not the current height + 1, its prev_block_hash is not the hash of the tip,
\* or Block.verify fails, the header list and height() are as before the call.
C3_RejectionKeepsChain ==
    [][(last'.op = "add_block" /\ last'.res.err \in ValidatorErrors)
          => (headers' = headers /\ height(headers') = height(headers))]_vars
C3_Witness ==
    /\ Len(headers) >= 2
    /\ RejectedByValidator
    /\ last.res.err = "the hash of the previous block is invalid"

\* C4: when add_block rejects a block because the VM execution of one of its
\* transactions fails, the contract state after the call equals the contract
\* state before the call, and no header is appended.
C4_VMFailureRollsBack ==
    [][(last'.op = "add_block" /\ ~last'.res.ok /\ last'.res.err \notin ValidatorErrors
            /\ last'.res # Panicked)
          => (contract_state' = contract_state /\ headers' = headers)]_vars


(***************************************************************************)
(* The wire (network/rpc.rs, network/message.rs, core/encoding.rs).        *)
(* bincode writes an enum as the index of its variant and a struct as its  *)
(* fields in order.  Encoded bytes are kept as the tagged value they       *)
(* decode to; Malformed stands for bytes bincode cannot read as the type   *)
(* asked for, and reading a body as another type than it was encoded from  *)
(* fails.                                                                  *)
(***************************************************************************)
MsgTx == 0
MsgBlock == 1
MsgGetBlocks == 2
MsgStatus == 3
MsgGetStatus == 4
MessageTypes == {MsgTx, MsgBlock, MsgGetBlocks, MsgStatus, MsgGetStatus}

Malformed == [is |-> "malformed"]

\* Transaction as serialized: hash and first_seen are skipped
TxWire(tx) == [is |-> "tx", data |-> tx.data, from |-> tx.from, signature |-> tx.signature]
\* Block as serialized: every field, the cached hash included
BlockWire(b) ==
    [is |-> "block", header |-> b.header,
     transactions |-> [i \in 1..Len(b.transactions) |-> TxWire(b.transactions[i])],
     validator |-> b.validator, signature |-> b.signature, hash |-> b.hash]
BlockUnwire(w) ==
    [header |-> w.header,
     transactions |-> [i \in 1..Len(w.transactions) |-> TxDecode(w.transactions[i])],
     validator |-> w.validator, signature |-> w.signature, hash |-> w.hash]

\* StatusMessage::new and the three messages as serialized
StatusMessage(id, version, current_height) ==
    [is |-> "status", id |-> id, version |-> version, current_height |-> current_height]
GetStatusMessage == [is |-> "get_status"]
GetBlocksMessage(from, to) == [is |-> "get_blocks", from |-> from, to |-> to]

\* Message::new(header, data) and Message::bytes
Message(header, data) == [is |-> "message", header |-> header, data |-> data]
RPC(from, payload) == [from |-> from, payload |-> payload]

DecodeErr(e) == [ok |-> FALSE, err |-> e, msg |-> None]
Decoded(from, kind, body) ==
    [ok |-> TRUE, err |-> "", msg |-> Some([from |-> from, kind |-> kind, body |-> body])]

\* default_rpc_decode_fn
default_rpc_decode_fn(rpc) ==
    IF rpc.payload.is # "message" \/ rpc.payload.header \notin MessageTypes
    THEN DecodeErr("invalid message header!")
    ELSE LET header == rpc.payload.header
             data == rpc.payload.data
         IN CASE header = MsgTx ->
                    IF data.is = "tx" THEN Decoded(rpc.from, "Tx", TxDecode(data))
                    ELSE DecodeErr("bincode")
              [] header = MsgBlock ->
                    IF data.is = "block" THEN Decoded(rpc.from, "Block", BlockUnwire(data))
                    ELSE DecodeErr("bincode")
              [] header = MsgGetStatus -> Decoded(rpc.from, "GetStatusMessage", None)
              [] header = MsgStatus ->
                    IF data.is = "status" THEN Decoded(rpc.from, "StatusMessage", data)
                    ELSE DecodeErr("bincode")
              [] OTHER -> DecodeErr("unhandled message type")


(***************************************************************************)
(* The server (network/server.rs).  A handler takes the chain and the pool *)
(* and returns them with the detached tasks it spawned and its result.     *)
(***************************************************************************)
Handled(p_headers, state, p_all, p_pending, spawn, res) ==
    [headers |-> p_headers, state |-> state, all |-> p_all, pending |-> p_pending,
     spawn |-> spawn, res |-> res]

\* the detached tasks: Server::broadcast of a message, Transport::send_message of
\* one, and Server::process_get_status_message
BroadcastTask(msg) == [kind |-> "broadcast", to |-> None, payload |-> msg]
SendTask(to, msg) == [kind |-> "send", to |-> Some(to), payload |-> msg]
GetStatusTask(from) == [kind |-> "get_status", to |-> Some(from), payload |-> None]

\* Server::broadcast_tx, Server::broadcast_block
broadcast_tx(tx) == BroadcastTask(Message(MsgTx, TxWire(tx)))
broadcast_block(b) == BroadcastTask(Message(MsgBlock, BlockWire(b)))

\* Server::process_transaction without the signature test
process_transaction_NoVerify(p_headers, state, p_all, p_pending, p_max, tx0, now, order) ==
    LET tx1 == calculate_and_cache_hash(tx0)
        tx2 == set_first_seen(tx1, now)
        Added(r) == Handled(p_headers, state, r.all, r.pending, <<broadcast_tx(tx2)>>, r.res)
    IN IF TxPoolHas(p_all, Unwrap(tx1.hash))
       THEN Handled(p_headers, state, p_all, p_pending, <<>>, Ok)
       ELSE Added(TxPoolAdd(p_all, p_pending, p_max, tx2, order))

\* Server::process_transaction without the test for a known hash
process_transaction_NoHas(p_headers, state, p_all, p_pending, p_max, tx0, now, order) ==
    LET tx1 == calculate_and_cache_hash(tx0)
        tx2 == set_first_seen(tx1, now)
        Added(r) == Handled(p_headers, state, r.all, r.pending, <<broadcast_tx(tx2)>>, r.res)
    IN IF ~TxVerify(tx1).ok
       THEN Handled(p_headers, state, p_all, p_pending, <<>>, TxVerify(tx1))
       ELSE Added(TxPoolAdd(p_all, p_pending, p_max, tx2, order))

\* Server::process_transaction
process_transaction(p_headers, state, p_all, p_pending, p_max, tx0, now, order) ==
    LET tx1 == calculate_and_cache_hash(tx0)
        tx2 == set_first_seen(tx1, now)
        Added(r) == Handled(p_headers, state, r.all, r.pending, <<broadcast_tx(tx2)>>, r.res)
    IN IF TxPoolHas(p_all, Unwrap(tx1.hash))
       THEN Handled(p_headers, state, p_all, p_pending, <<>>, Ok)
       ELSE IF ~TxVerify(tx1).ok
       THEN Handled(p_headers, state, p_all, p_pending, <<>>, TxVerify(tx1))
       ELSE Added(TxPoolAdd(p_all, p_pending, p_max, tx2, order))

\* Server::process_block spawning the broadcast whatever add_block returned
process_block_AlwaysBroadcast(p_headers, state, p_all, p_pending, block0, log_info) ==
    LET block == [block0 EXCEPT !.transactions =
                     [i \in 1..Len(block0.transactions) |->
                         calculate_and_cache_hash(block0.transactions[i])]]
        Added(r) ==
            Handled(r.headers, r.state, p_all, p_pending, <<broadcast_block(block)>>, r.res)
    IN Added(add_block(p_headers, state, block, log_info))

\* Server::process_block
process_block(p_headers, state, p_all, p_pending, block0, log_info) ==
    LET block == [block0 EXCEPT !.transactions =
                     [i \in 1..Len(block0.transactions) |->
                         calculate_and_cache_hash(block0.transactions[i])]]
        Added(r) ==
            Handled(r.headers, r.state, p_all, p_pending,
                    IF r.res.ok THEN <<broadcast_block(block)>> ELSE <<>>, r.res)
    IN Added(add_block(p_headers, state, block, log_info))

\* Server::process_status_message asking also a peer of the same height
process_status_message_Lt(p_headers, state, p_all, p_pending, from, msg) ==
    IF msg.current_height < height(p_headers)
    THEN Handled(p_headers, state, p_all, p_pending, <<>>, Ok)
    ELSE Handled(p_headers, state, p_all, p_pending,
                 <<SendTask(from, Message(MsgGetBlocks,
                       GetBlocksMessage(height(p_headers) + 1, msg.current_height)))>>,
                 Ok)

\* Server::process_status_message
process_status_message(p_headers, state, p_all, p_pending, from, msg) ==
    IF msg.current_height <= height(p_headers)
    THEN Handled(p_headers, state, p_all, p_pending, <<>>, Ok)
    ELSE Handled(p_headers, state, p_all, p_pending,
                 <<SendTask(from, Message(MsgGetBlocks,
                       GetBlocksMessage(height(p_headers) + 1, msg.current_height)))>>,
                 Ok)

\* Server::process_get_blocks_message
process_get_blocks_message(p_headers, state, p_all, p_pending) ==
    Handled(p_headers, state, p_all, p_pending, <<>>, Ok)

\* Server::process_message
process_message(p_headers, state, p_all, p_pending, p_max, msg, now, order, log_info) ==
    CASE msg.kind = "Tx" ->
            process_transaction(p_headers, state, p_all, p_pending, p_max, msg.body, now,
                                order)
      [] msg.kind = "Block" ->
            process_block(p_headers, state, p_all, p_pending, msg.body, log_info)
      [] msg.kind = "StatusMessage" ->
            process_status_message(p_headers, state, p_all, p_pending, msg.from, msg.body)
      [] msg.kind = "GetStatusMessage" ->
            Handled(p_headers, state, p_all, p_pending, <<GetStatusTask(msg.from)>>, Ok)
      [] msg.kind = "GetBlocksMessage" ->
            process_get_blocks_message(p_headers, state, p_all, p_pending)

\* Server::process_get_status_message: the message it spawns the sending of
ServerId == "S"
\* Server::process_get_status_message reporting the height of a new chain
process_get_status_message_Genesis(p_headers, from) ==
    SendTask(from, Message(MsgStatus, StatusMessage(ServerId, 0, 0)))
process_get_status_message(p_headers, from) ==
    SendTask(from, Message(MsgStatus, StatusMessage(ServerId, 0, height(p_headers))))

\* Server::create_new_block without the call of clear_pending
create_new_block_KeepPending(p_headers, state, p_all, p_pending, private_key, now, order, log_info) ==
    LET prev_header == get_header(p_headers, height(p_headers))
        txx == pending_cloned(p_pending, order)
        block == BlockSign(from_prev_header(prev_header, txx, now), private_key)
        Added(r) ==
            IF r.res.ok
            THEN Handled(r.headers, r.state, p_all, p_pending, <<broadcast_block(block)>>, Ok)
            ELSE Handled(r.headers, r.state, p_all, p_pending, <<>>, r.res)
    IN Added(add_block(p_headers, state, block, log_info))

\* Server::create_new_block
create_new_block(p_headers, state, p_all, p_pending, private_key, now, order, log_info) ==
    LET prev_header == get_header(p_headers, height(p_headers))
        txx == pending_cloned(p_pending, order)
        block == BlockSign(from_prev_header(prev_header, txx, now), private_key)
        Added(r) ==
            IF r.res.ok
            THEN Handled(r.headers, r.state, p_all, TxPoolClearPending(p_all, p_pending).pending,
                         <<broadcast_block(block)>>, Ok)
            ELSE Handled(r.headers, r.state, p_all, p_pending, <<>>, r.res)
    IN Added(add_block(p_headers, state, block, log_info))


(***************************************************************************)
(* SpecServer: one Server, started with or without a private key, whose    *)
(* peers put RPCs on its channel.  Its dispatch loop, its validator loop   *)
(* and the tasks it spawned run interleaved.                               *)
(***************************************************************************)
ServerKey == 1
PeerKey == 2
Peers == {"P", "Q"}

\* the transactions peers send: three signed ones, one of them with empty data,
\* one whose signature is over other data, one without a signature
ProgPush == <<3, PushInt>>
PeerTxs ==
    {TxSign(NewTransaction(ProgStore), PeerKey),
     TxSign(NewTransaction(ProgPush), PeerKey),
     TxSign(NewTransaction(ProgEmpty), PeerKey),
     [TxSign(NewTransaction(ProgStore), PeerKey) EXCEPT !.data = ProgGetAbsent],
     NewTransaction(ProgStore)}

\* the blocks peers send on this tip: signed ones whose transactions run, fail or
\* panic in the VM, and one without a signature
PeerTxLists ==
    {<<>>,
     <<SignedTx(ProgStoreThenFail)>>,
     <<SignedTx(ProgEmpty)>>,
     <<SignedTx(ProgDivZero)>>}
PeerBlocks(p_headers) ==
    LET tip == p_headers[Len(p_headers)]
    IN {BlockSign(from_prev_header(tip, txx, 0), PeerKey) : txx \in PeerTxLists}
       \cup {from_prev_header(tip, <<>>, 0)}

\* the RPCs the peers may put on the channel: P sends transactions, blocks, its
\* status, a request for blocks and undecodable bytes, Q asks for the status
Inbound(p_headers) ==
    {RPC("P", Malformed), RPC("P", Message(MsgTx, Malformed)),
     RPC("P", Message(MsgGetBlocks, GetBlocksMessage(1, 1)))}
    \cup {RPC("P", Message(MsgTx, TxWire(tx))) : tx \in PeerTxs}
    \cup {RPC("P", Message(MsgBlock, BlockWire(b))) : b \in PeerBlocks(p_headers)}
    \cup {RPC("P", Message(MsgStatus, StatusMessage("P", 0, h))) : h \in {0, MaxHeight}}
    \cup {RPC("Q", Message(MsgGetStatus, GetStatusMessage))}

\* the reading of Instant::now().elapsed() the handlers and the validator loop
\* stamp transactions and blocks with: the age of an Instant made in the same
\* expression.  Transactions of equal first_seen keep the map's order in a
\* snapshot, which Orders enumerates.
ServerNanos == {0}

\* the detached tasks held at once: MaxSpawned that read the chain when they run
\* and MaxSpawned that only hand a message to a transport
Fits(q) ==
    /\ Cardinality({i \in 1..Len(q) : q[i].kind = "get_status"}) <= MaxSpawned
    /\ Cardinality({i \in 1..Len(q) : q[i].kind # "get_status"}) <= MaxSpawned

InitServer ==
    /\ headers = add_block_without_validation(<<>>, genesis(21, 0))
    /\ contract_state = EmptyMap
    /\ all = EmptyMap
    /\ pending = EmptyMap
    /\ max_length = MaxLen
    /\ rpc_channel = <<>>
    /\ spawned = <<>>
    /\ task = "running"
    /\ validator_loop \in {"off", "ticking"}
    /\ quit_channel = <<>>
    /\ machine = None
    /\ peers = EmptyMap
    /\ consume_channel = EmptyMap
    /\ locks = None
    /\ pc = None
    /\ last = NoCall

\* a transport task forwards an RPC of a peer to the channel.  A run is followed
\* up to the quit signal and then through what is already queued.
Deliver ==
    /\ Len(rpc_channel) < MaxQueue
    /\ height(headers) < MaxHeight
    /\ quit_channel = <<>>
    /\ \E rpc \in Inbound(headers) : rpc_channel' = Append(rpc_channel, rpc)
    /\ last' = Call("deliver", None, Ok, None)
    /\ UNCHANGED <<machine, peers, consume_channel, locks, pc,
                   headers, contract_state, all, pending, max_length, spawned, task,
                   validator_loop, quit_channel>>

\* one iteration of the loop of Server::start
Dispatch ==
    /\ task = "running"
    /\ rpc_channel # <<>>
    /\ rpc_channel' = Tail(rpc_channel)
    /\ \E d \in {default_rpc_decode_fn(Head(rpc_channel))} :
          IF ~d.ok
          THEN /\ last' = Call("dispatch", None, Err(d.err), None)
               /\ UNCHANGED <<headers, contract_state, all, pending, spawned, task>>
          ELSE \E now \in ServerNanos, order \in Orders(DOMAIN all) :
               \E r \in {process_message(headers, contract_state, all, pending, max_length,
                                         Unwrap(d.msg), now, order, TRUE)} :
                  /\ Fits(spawned \o r.spawn)
                  /\ headers' = r.headers
                  /\ contract_state' = r.state
                  /\ all' = r.all
                  /\ pending' = r.pending
                  /\ spawned' = spawned \o r.spawn
                  /\ task' = IF r.res = Panicked THEN "panicked" ELSE task
                  /\ last' = Call("dispatch", Some(Unwrap(d.msg).kind), r.res, None)
    /\ UNCHANGED <<machine, peers, consume_channel, locks, pc, max_length, validator_loop, quit_channel>>

\* one tick of Server::validator_loop
ValidatorTick ==
    /\ validator_loop = "ticking"
    /\ height(headers) < MaxHeight
    /\ \E now \in ServerNanos, order \in Orders(DOMAIN pending) :
       \E r \in {create_new_block(headers, contract_state, all, pending, ServerKey, now,
                                  order, TRUE)} :
          /\ Fits(spawned \o r.spawn)
          /\ headers' = r.headers
          /\ contract_state' = r.state
          /\ all' = r.all
          /\ pending' = r.pending
          /\ spawned' = spawned \o r.spawn
          /\ validator_loop' = IF r.res = Panicked THEN "panicked" ELSE validator_loop
          /\ last' = Call("create_new_block", None, r.res, None)
    /\ UNCHANGED <<machine, peers, consume_channel, locks, pc, max_length, rpc_channel, task, quit_channel>>

\* a detached task runs: a get_status task reads the height and spawns the
\* sending of the Status message, a send or broadcast hands its message to the
\* transport
RunSpawned ==
    /\ \E i \in 1..Len(spawned) :
          LET t == spawned[i]
              rest == SubSeq(spawned, 1, i - 1) \o SubSeq(spawned, i + 1, Len(spawned))
              reply == process_get_status_message(headers, Unwrap(t.to))
          IN /\ t.kind = "get_status" => Fits(rest \o <<reply>>)
             /\ spawned' = IF t.kind = "get_status"
                           THEN rest \o <<reply>>
                           ELSE rest
             /\ last' = Call("spawned", Some(t.kind), Ok, None)
    /\ UNCHANGED <<machine, peers, consume_channel, locks, pc,
                   headers, contract_state, all, pending, max_length, rpc_channel, task,
                   validator_loop, quit_channel>>

\* a holder of the sender of the quit channel signals it.  The loop of
\* Server::start reads the quit channel only when recv() on the RPC channel
\* returns None, that is when the channel is closed; the server keeps a sender
\* of its RPC channel, so this does not happen and the signal stays queued.
Quit ==
    /\ quit_channel = <<>>
    /\ quit_channel' = <<"quit">>
    /\ last' = Call("quit", None, Ok, None)
    /\ UNCHANGED <<machine, peers, consume_channel, locks, pc,
                   headers, contract_state, all, pending, max_length, rpc_channel, spawned,
                   task, validator_loop>>

NextServer == Deliver \/ Dispatch \/ ValidatorTick \/ RunSpawned \/ Quit
SpecServer == InitServer /\ [][NextServer]_vars

(***************************************************************************)
(* Claims about the server, checked under SpecServer.                      *)
(***************************************************************************)
\* C5: the dispatch loop survives every inbound RPC: whatever the payload,
\* processing ends with the message dropped or an error logged and the loop
\* goes on; no inbound message aborts the server task.
C5_DispatchSurvives == task = "running"

(***************************************************************************)
(* The steps of SpecServer as the claims about the handlers see them.       *)
(***************************************************************************)
\* the dispatch loop takes the RPC at the head of the channel
Dispatching == task = "running" /\ rpc_channel # <<>> /\ rpc_channel' = Tail(rpc_channel)
\* what the decoder makes of the RPC at the head of the channel
Inbox == default_rpc_decode_fn(Head(rpc_channel))
InboxFrom == Unwrap(Inbox.msg).from
InboxBody == Unwrap(Inbox.msg).body
DispatchingKind(kind) == Dispatching /\ Inbox.ok /\ Unwrap(Inbox.msg).kind = kind
\* the tasks a step of a handler spawned
Spawns ==
    IF Len(spawned') > Len(spawned) /\ SubSeq(spawned', 1, Len(spawned)) = spawned
    THEN {spawned'[i] : i \in (Len(spawned) + 1)..Len(spawned')}
    ELSE {}
IsTxBroadcast(t) == t.kind = "broadcast" /\ t.payload.header = MsgTx
IsBlockBroadcast(t) == t.kind = "broadcast" /\ t.payload.header = MsgBlock
ChainUnchanged == headers' = headers /\ contract_state' = contract_state
PoolUnchanged == all' = all /\ pending' = pending

\* C11: every transaction the Tx handler leaves in the mempool passes verify();
\* a Tx message whose transaction fails it leaves all and pending as they were
\* and spawns no broadcast
PoolVerified ==
    /\ \A h \in DOMAIN all : TxVerify(all[h]).ok
    /\ \A h \in DOMAIN pending : TxVerify(pending[h]).ok
C11_OnlyVerifiedPooled ==
    /\ []PoolVerified
    /\ [][DispatchingKind("Tx") /\ ~TxVerify(InboxBody).ok
            => PoolUnchanged /\ spawned' = spawned]_vars
\* a Tx message was refused for its signature while the mempool holds transactions
C11_Witness ==
    /\ last.op = "dispatch" /\ last.arg = Some("Tx") /\ ~last.res.ok
    /\ last.res.err \in VerifyErrors
    /\ pending # EmptyMap

C13_BlockBroadcastOnlyAccepted ==
    /\ [][DispatchingKind("Block")
            => /\ spawned' # spawned
                    => last'.res.ok /\ headers' = Append(headers, InboxBody.header)
               /\ InboxBody.header.height <= height(headers)
                    => /\ last'.res = Err("block already known")
                       /\ spawned' = spawned /\ ChainUnchanged /\ PoolUnchanged]_vars
    /\ [][\A t \in Spawns : IsBlockBroadcast(t)
            => headers' = Append(headers, t.payload.data.header)]_vars
\* a Block message at a height the chain had was refused and nothing is spawned
C13_Witness ==
    /\ last.op = "dispatch" /\ last.arg = Some("Block")
    /\ last.res = Err("block already known")
    /\ height(headers) >= 1
    /\ spawned = <<>>

\* a step of the validator loop: no other action records create_new_block
Ticking == last'.op = "create_new_block"

\* C14: a tick that succeeds appends one header whose height is the height
\* before + 1 and whose prev_block_hash is the hash of the tip before; the block
\* it spawns the broadcast of, in the same step, has that header and exactly a
\* snapshot of pending, in the snapshot's order, as transactions; pending is
\* empty and all is unchanged afterwards
C14_TickAppendsOne ==
    [][Ticking /\ last'.res.ok
         => \E order \in Orders(DOMAIN pending) :
               LET snap == pending_cloned(pending, order)
                   tip == headers[Len(headers)]
                   new == headers'[Len(headers')]
               IN /\ headers' = Append(headers, new)
                  /\ new.height = height(headers) + 1
                  /\ new.prev_block_hash = BlockHasher(tip)
                  /\ new.data_hash = calculate_data_hash(snap)
                  /\ \E t \in Spawns :
                        /\ spawned' = Append(spawned, t)
                        /\ IsBlockBroadcast(t)
                        /\ t.payload.data.header = new
                        /\ t.payload.data.transactions
                             = [i \in 1..Len(snap) |-> TxWire(snap[i])]
                  /\ pending' = EmptyMap
                  /\ all' = all]_vars
\* a tick succeeded with two pending transactions in its block
C14_Witness ==
    /\ last.op = "create_new_block" /\ last.res.ok
    /\ spawned # <<>>
    /\ IsBlockBroadcast(spawned[Len(spawned)])
    /\ Len(spawned[Len(spawned)].payload.data.transactions) = 2
    /\ pending = EmptyMap
    /\ Cardinality(DOMAIN all) = 2

\* C15: a tick that fails appends no header, leaves pending as it was and
\* spawns no broadcast, and the validator loop goes on ticking
C15_FailedTickSkipped ==
    [][Ticking /\ ~last'.res.ok
         => /\ headers' = headers
            /\ pending' = pending
            /\ spawned' = spawned
            /\ validator_loop' = "ticking"]_vars

\* C16: once the quit channel is signalled, the next iteration of the dispatch
\* loop ends the loop
C16_QuitStopsLoop ==
    [][quit_channel # <<>> /\ Dispatching => task' = "stopped"]_vars

\* C17, the leader's part: a request GetBlocks{from, to} for blocks the chain has
\* is answered by sending blocks to the peer that asked
IsGetBlocks(rpc) ==
    /\ rpc.payload.is = "message"
    /\ rpc.payload.header = MsgGetBlocks
    /\ rpc.payload.data.is = "get_blocks"
C17_GetBlocksAnswered ==
    [][Dispatching /\ IsGetBlocks(Head(rpc_channel))
          /\ Head(rpc_channel).payload.data.from >= 1
          /\ Head(rpc_channel).payload.data.to <= height(headers)
         => \E t \in Spawns :
               /\ t.kind = "send"
               /\ t.to = Some(Head(rpc_channel).from)
               /\ t.payload.header = MsgBlock]_vars

\* C18: a Status message of peer P with a height at most the own height spawns
\* nothing; one with a greater height spawns exactly the sending of
\* GetBlocks{own height + 1, that height} to P; chain and mempool keep their
\* values
C18_StatusHandled ==
    [][DispatchingKind("StatusMessage")
         => /\ ChainUnchanged /\ PoolUnchanged
            /\ spawned' =
                 IF InboxBody.current_height <= height(headers)
                 THEN spawned
                 ELSE Append(spawned,
                             SendTask(InboxFrom,
                                      Message(MsgGetBlocks,
                                              GetBlocksMessage(height(headers) + 1,
                                                               InboxBody.current_height))))]_vars
\* a Status message of P was handled on a chain of height 0 and the request for
\* the blocks 1..MaxHeight awaits its sending to P
C18_Witness ==
    /\ last.op = "dispatch" /\ last.arg = Some("StatusMessage") /\ last.res.ok
    /\ spawned = <<SendTask("P", Message(MsgGetBlocks, GetBlocksMessage(1, MaxHeight)))>>
    /\ height(headers) = 0

\* C19: a GetStatus message of peer P spawns one task for P and changes neither
\* chain nor mempool; that task, when it runs, spawns the sending to P of one
\* Status message with the server's id, version 0 and the height the chain has
\* then; the height of the chain never decreases, so it is a height the chain
\* had at or after the dispatch
Without(q, i) == SubSeq(q, 1, i - 1) \o SubSeq(q, i + 1, Len(q))
C19_StatusReply ==
    /\ [][DispatchingKind("GetStatusMessage")
            => /\ spawned' = Append(spawned, GetStatusTask(InboxFrom))
               /\ ChainUnchanged /\ PoolUnchanged]_vars
    /\ [][last'.op = "spawned" /\ last'.arg = Some("get_status")
            => /\ \E i \in 1..Len(spawned) :
                     /\ spawned[i].kind = "get_status"
                     /\ spawned' =
                          Append(Without(spawned, i),
                                 SendTask(Unwrap(spawned[i].to),
                                          Message(MsgStatus,
                                                  StatusMessage(ServerId, 0,
                                                                height(headers)))))
               /\ ChainUnchanged /\ PoolUnchanged]_vars
    /\ [][height(headers') >= height(headers)]_vars
\* the task of a GetStatus message of Q ran on a chain that has grown: the Status
\* message for Q carries that height
C19_Witness ==
    /\ last.op = "spawned" /\ last.arg = Some("get_status")
    /\ height(headers) >= 1
    /\ \E i \in 1..Len(spawned) :
          spawned[i] = SendTask("Q", Message(MsgStatus,
                                             StatusMessage(ServerId, 0, height(headers))))

\* C20: the decoder maps every envelope whose type is one of the five and whose
\* data is a body of that type to that body, with the sender of the RPC as from
BodyOf(header) ==
    CASE header = MsgTx -> "tx"
      [] header = MsgBlock -> "block"
      [] header = MsgGetBlocks -> "get_blocks"
      [] header = MsgStatus -> "status"
      [] header = MsgGetStatus -> "get_status"
KindOf(header) ==
    CASE header = MsgTx -> "Tx"
      [] header = MsgBlock -> "Block"
      [] header = MsgGetBlocks -> "GetBlocksMessage"
      [] header = MsgStatus -> "StatusMessage"
      [] header = MsgGetStatus -> "GetStatusMessage"
WellFormed(rpc) ==
    /\ rpc.payload.is = "message"
    /\ rpc.payload.header \in MessageTypes
    /\ rpc.payload.data.is = BodyOf(rpc.payload.header)
C20_DecoderMapsAll ==
    [][Dispatching /\ WellFormed(Head(rpc_channel))
         => /\ Inbox.ok
            /\ InboxFrom = Head(rpc_channel).from
            /\ Unwrap(Inbox.msg).kind = KindOf(Head(rpc_channel).payload.header)]_vars

(***************************************************************************)
(* SpecVM: a VM is created for a program and run one iteration of the loop *)
(* of VM::run at a time.  When it has returned Ok, the next program runs   *)
(* on the state it left, as run_transactions runs the transactions of a    *)
(* block one after another on the contract state.                          *)
(***************************************************************************)
\* operand bytes of the addition programs; 10, 174 and 253 are also the
\* opcodes of PushInt, Get and Div
Operands == {0, 1, 2, 3, 6, 10, 174, 253, 255}
\* operand bytes that are no opcode
PlainOperands == {0, 2, 3, 6}
\* the counts given to Pack
PackCounts == {0, 1, 2, 3, 4, 5, 8, 9, 16, 17, 32, 33, 64, 65, 255}
\* the bytes of "F" and "O"
LetterF == 70
LetterO == 79

\* PushInt x, PushInt y, Add
AddProgram(x, y) == <<x, PushInt, y, PushInt, Add>>
\* PushInt x, PushInt y, Sub (test_vm with x = 2, y = 3)
SubProgram(x, y) == <<x, PushInt, y, PushInt, Sub>>
\* PushByte x, PushByte y, Div (test_vm_div with x = 3, y = 6)
DivProgram(x, y) == <<x, PushByte, y, PushByte, Div>>
\* PushByte x, PushByte y, Mul (test_vm_mul with x = 2, y = 3)
MulProgram(x, y) == <<x, PushByte, y, PushByte, Mul>>

\* PushByte of every byte of bs, the first one first
RECURSIVE PushBytes(_)
PushBytes(bs) == IF bs = <<>> THEN <<>> ELSE <<Head(bs), PushByte>> \o PushBytes(Tail(bs))
\* the bytes pushed, the count n pushed, Pack (test_vm_pack with "OOF" and 3)
PackProgram(bs, n) == PushBytes(bs) \o <<n, PushInt, Pack>>
PackFoo == PackProgram(<<LetterO, LetterO, LetterF>>, 3)
\* Pack with the count 2 - 3 = -1 on the stack
PackNegative == SubProgram(3, 2) \o <<Pack>>
\* Pack of one item with a packed array on top of the stack
PackPacked == PackFoo \o <<1, PushInt, Pack>>

\* push the value v, push the key k, Store
StoreProgram(k, v) == <<v, PushInt, k, PushByte, Store>>
\* push the key k, Get
GetProgram(k) == <<k, PushByte, Get>>
\* test_vm_store: push 5, pack the key "FOO", Store
FooStore == <<5, PushInt>> \o PackFoo \o <<Store>>
\* FooStore, then pack "FOO" again and Get
FooStoreGet == FooStore \o PackFoo \o <<Get>>
\* test_vm_store_get: the 5 is computed as 2 + 3
FooAddStoreGet == AddProgram(2, 3) \o PackFoo \o <<Store>> \o PackFoo \o <<Get>>
\* a Store of the packed array as the value, then Get
StoreArray == PackFoo \o <<2, PushByte, Store>> \o GetProgram(2)

PackBytes == {<<>>, <<LetterF>>, <<LetterO, LetterF>>, <<LetterO, LetterO, LetterF>>}

VMPrograms ==
    {AddProgram(x, y) : x \in Operands, y \in Operands}
    \cup {SubProgram(x, y) : x \in PlainOperands, y \in PlainOperands}
    \cup {DivProgram(x, y) : x \in PlainOperands, y \in PlainOperands}
    \cup {MulProgram(x, y) : x \in PlainOperands, y \in PlainOperands}
    \cup {PackProgram(bs, n) : bs \in PackBytes, n \in PackCounts}
    \cup {PackNegative, PackPacked, StoreArray}
    \cup {StoreProgram(k, v) : k \in {2, 3}, v \in {0, 6}}
    \cup {GetProgram(k) : k \in {2, 3}}
    \cup {StoreProgram(k, v) \o GetProgram(k) : k \in {2, 3}, v \in {0, 6}}
    \cup {FooStore, FooStoreGet, FooAddStoreGet, ProgEmpty}

InitVM ==
    /\ machine \in {NewVM(data, EmptyMap) : data \in VMPrograms}
    /\ headers = <<>>
    /\ contract_state = EmptyMap
    /\ all = EmptyMap
    /\ pending = EmptyMap
    /\ max_length = 0
    /\ rpc_channel = <<>>
    /\ spawned = <<>>
    /\ validator_loop = "off"
    /\ quit_channel = <<>>
    /\ peers = EmptyMap
    /\ consume_channel = EmptyMap
    /\ locks = None
    /\ pc = None
    /\ task = "running"
    /\ last = NoCall

\* one iteration of the loop of VM::run; a panic ends the task that runs the VM
VMStep ==
    /\ task = "running"
    /\ machine.status = "running"
    /\ machine' = run_step(machine)
    /\ task' = IF machine'.status = "panic" THEN "panicked" ELSE task
    /\ UNCHANGED <<headers, contract_state, all, pending, max_length, rpc_channel, spawned,
                   validator_loop, quit_channel, peers, consume_channel, locks, pc, last>>

\* VM::new for the next program, on the state the last run left
VMNew ==
    /\ task = "running"
    /\ machine.status = "ok"
    /\ \E data \in VMPrograms : machine' = NewVM(data, machine.state)
    /\ UNCHANGED <<headers, contract_state, all, pending, max_length, rpc_channel, spawned,
                   task, validator_loop, quit_channel, peers, consume_channel, locks, pc, last>>

NextVM == VMStep \/ VMNew
SpecVM == InitVM /\ [][NextVM]_vars

\* the instruction the step of the machine executes, 0 when the byte at ip is data
Running == machine.status = "running" /\ machine.ip < Len(machine.data)
Executing(instr) ==
    /\ task = "running"
    /\ Running
    /\ machine.data[machine.ip + 1] = instr
    /\ machine'.data = machine.data
    /\ machine'.ip # machine.ip \/ machine'.status # machine.status
\* the run of the machine on this program has ended
Ended(data) == machine.data = data /\ machine.status # "running"
\* the two items a step pops first, and what is below them
Popped1 == StackTop(machine.stack)
Popped2 == StackTop(StackPop(machine.stack))
Below2 == StackPop(StackPop(machine.stack))
\* the machine goes on, or has returned Ok at the end of the program
Going(vm) == vm.status \in {"running", "ok"}
\* two stack items, two stacks are equal
SameItem(x, y) == x.t = y.t /\ x.v = y.v /\ x.bytes = y.bytes
SameStack(s, t) == Len(s) = Len(t) /\ \A i \in 1..Len(s) : SameItem(s[i], t[i])
\* the quotient of i32, rounded towards zero
Quotient(a, b) ==
    LET q == Abs(a) \div Abs(b) IN IF (a < 0) = (b < 0) THEN q ELSE -q

\* C23: for all operand bytes x and y the program PushInt x, PushInt y, Add, run
\* on an empty contract state, returns Ok and leaves Int(x + y) on top of the
\* stack.  (The contract state is never emptied, so a run that ends on the empty
\* state began on it.)
C23_AddAllBytes ==
    \A x \in Operands, y \in Operands :
        (Ended(AddProgram(x, y)) /\ machine.state = EmptyMap)
            => /\ machine.status = "ok"
               /\ SameItem(StackTop(machine.stack), ItemInt(x + y))

\* C24: Sub and Div pop a, then b, and push Int(a - b) resp. Int(a / b) onto what
\* is below; the program of test_vm ends with Int(1) on top, the one of
\* test_vm_div with Int(2)
C24_FirstPoppedLeft ==
    [][/\ \A op \in {Sub, Div} :
            (/\ Executing(op)
             /\ Popped1.t # "Bytes" /\ Popped2.t # "Bytes"
             /\ op = Div => Popped2.v # 0)
            => /\ Going(machine')
               /\ SameStack(machine'.stack,
                     <<ItemInt(IF op = Sub THEN Popped1.v - Popped2.v
                               ELSE Quotient(Popped1.v, Popped2.v))>> \o Below2)
       /\ (machine'.data = SubProgram(2, 3) /\ machine'.status # "running")
            => machine'.status = "ok" /\ SameItem(StackTop(machine'.stack), ItemInt(1))
       /\ (machine'.data = DivProgram(3, 6) /\ machine'.status # "running")
            => machine'.status = "ok" /\ SameItem(StackTop(machine'.stack), ItemInt(2))]_vars

\* a Div with different operands has run: 6 / 3 gave 2, and a Sub gave 3 - 2
C24_Witness ==
    \/ Ended(DivProgram(3, 6)) /\ SameStack(machine.stack, <<ItemInt(2)>>)
    \/ Ended(SubProgram(2, 3)) /\ SameStack(machine.stack, <<ItemInt(1)>>)

\* the smallest of the widths 4, 8, 16, 32, 64 that is at least n
Widths == {4, 8, 16, 32, 64}
SmallestWidth(n) == CHOOSE w \in Widths : w >= n /\ \A u \in Widths : u >= n => w <= u
\* the i-th item a step pops, Byte(0) below the bottom of the stack
PoppedAt(i) == IF i <= Len(machine.stack) THEN machine.stack[i] ELSE ItemByte(0)
\* the stack without the n items popped
Drop(stack, n) == IF n >= Len(stack) THEN <<>> ELSE SubSeq(stack, n + 1, Len(stack))

\* C25: Pack pops the count n and then n items; it pushes the array of the
\* smallest width of 4, 8, 16, 32, 64 that is at least n, with the byte of the
\* i-th popped item at place i and zeros behind them.  For n above 64, or a
\* negative Int, it returns an error and pushes nothing.
C25_Pack ==
    [][(Executing(Pack) /\ Popped1.t # "Bytes")
        => LET n == Popped1.v
           IN IF n < 0 \/ n > 64
              THEN /\ machine'.status = "err"
                   /\ SameStack(machine'.stack, Drop(machine.stack, 1))
              ELSE IF \A i \in 1..n : PoppedAt(i + 1).t # "Bytes"
              THEN /\ Going(machine')
                   /\ SameStack(machine'.stack,
                        <<ItemBytes([i \in 1..SmallestWidth(n) |->
                                        IF i <= n THEN AsU8(PoppedAt(i + 1).v) ELSE 0])>>
                        \o Drop(machine.stack, n + 1))
              ELSE machine'.status = "err"]_vars

\* test_vm_pack has run: "F", "O", "O" were popped in this order into an array
\* of width 4
\* the key "FOO" packed into four bytes
FooKey == <<LetterF, LetterO, LetterO, 0>>
C25_Witness == Ended(PackFoo) /\ SameStack(machine.stack, <<ItemBytes(FooKey)>>)

\* C26: Store pops the key, then the value, and writes state[bytes(key)] =
\* bytes(value), leaving the other keys alone; Get of a key of the state pushes
\* an item whose bytes are the stored bytes, in place of the key; Get of an
\* absent key returns an error and leaves the state unchanged; after push 5,
\* pack "FOO", Store, pack "FOO", Get the state maps FooKey to [5] and Byte(5)
\* is on top.
C26_StoreGet ==
    [][/\ Executing(Store)
            => /\ Going(machine')
               /\ SameStack(machine'.stack, Below2)
               /\ DOMAIN machine'.state = DOMAIN machine.state \cup {to_bytes(Popped1)}
               /\ \A k \in DOMAIN machine'.state :
                     machine'.state[k] = IF k = to_bytes(Popped1) THEN to_bytes(Popped2)
                                         ELSE machine.state[k]
       /\ (Executing(Get) /\ to_bytes(Popped1) \in DOMAIN machine.state)
            => /\ Going(machine')
               /\ machine'.stack # <<>>
               /\ to_bytes(Head(machine'.stack)) = machine.state[to_bytes(Popped1)]
               /\ SameStack(Tail(machine'.stack), StackPop(machine.stack))
               /\ machine'.state = machine.state
       /\ (Executing(Get) /\ to_bytes(Popped1) \notin DOMAIN machine.state)
            => /\ machine'.status = "err"
               /\ machine'.state = machine.state
       /\ (machine'.data = FooStoreGet /\ machine'.status # "running")
            => /\ machine'.status = "ok"
               /\ FooKey \in DOMAIN machine'.state
               /\ machine'.state[FooKey] = <<5>>
               /\ SameItem(StackTop(machine'.stack), ItemByte(5))]_vars

\* the program has run on the empty state: the state is exactly FooKey -> [5]
C26_Witness ==
    /\ Ended(FooStoreGet)
    /\ machine.state = MapInsert(EmptyMap, FooKey, <<5>>)
    /\ SameStack(machine.stack, <<ItemByte(5)>>)

\* C27: a Div whose divisor is zero makes run return an error, and the task that
\* runs the VM goes on
C27_DivByZeroIsError ==
    [][(/\ Executing(Div)
        /\ Popped1.t # "Bytes" /\ Popped2.t # "Bytes"
        /\ Popped2.v = 0)
        => machine'.status = "err" /\ task' = "running"]_vars

(***************************************************************************)
(* SpecBlock: a block is built on a header, signed, verified, changed by   *)
(* its holder (as test_verify_block does, or as a sender of the encoded    *)
(* block can) and verified again.  `last` holds the call and the block.    *)
(***************************************************************************)
HeaderFields == {"version", "data_hash", "prev_block_hash", "timestamp", "height"}
\* what is changed in a verified block: a field of the header, the key or the
\* signature replaced by those of another key or taken away, the transactions
Changes ==
    HeaderFields \cup {"validator", "signature", "no validator", "no signature", "transactions"}

\* the transaction lists of the blocks: signed transactions, one without a
\* signature, one signed over other data
BlockTxLists ==
    {<<>>,
     <<SignedTx(ProgStore)>>,
     <<SignedTx(ProgStore), SignedTx(ProgPush)>>,
     <<NewTransaction(ProgStore)>>,
     <<SignedTx(ProgStore), [SignedTx(ProgStore) EXCEPT !.data = ProgGetAbsent]>>}

\* a key that is not the one of this public key
OtherKey(pub_key) == CHOOSE k \in PrivateKeys : public_key(k) # pub_key

\* the block with one thing changed to another value
Changed(b, c) ==
    CASE c = "version" -> [b EXCEPT !.header.version = @ + 1]
      [] c = "data_hash" -> [b EXCEPT !.header.data_hash = WrongHash]
      [] c = "prev_block_hash" -> [b EXCEPT !.header.prev_block_hash = WrongHash]
      [] c = "timestamp" -> [b EXCEPT !.header.timestamp = @ + 1]
      [] c = "height" -> [b EXCEPT !.header.height = 100]
      [] c = "validator" ->
            [b EXCEPT !.validator = Some(public_key(OtherKey(Unwrap(b.validator))))]
      [] c = "signature" ->
            [b EXCEPT !.signature =
                Some(sign(OtherKey(Unwrap(b.validator)), HeaderBytes(b.header)))]
      [] c = "no validator" -> [b EXCEPT !.validator = None]
      [] c = "no signature" -> [b EXCEPT !.signature = None]
      [] c = "transactions" -> [b EXCEPT !.transactions = <<SignedTx(ProgDivZero)>>]

InitBlock ==
    /\ headers = <<>>
    /\ contract_state = EmptyMap
    /\ all = EmptyMap
    /\ pending = EmptyMap
    /\ max_length = 0
    /\ rpc_channel = <<>>
    /\ spawned = <<>>
    /\ validator_loop = "off"
    /\ quit_channel = <<>>
    /\ machine = None
    /\ peers = EmptyMap
    /\ consume_channel = EmptyMap
    /\ locks = None
    /\ pc = None
    /\ task = "running"
    /\ last = NoCall

BlockUnchanged ==
    UNCHANGED <<headers, contract_state, all, pending, max_length, rpc_channel, spawned,
                validator_loop, quit_channel, machine, peers, consume_channel, locks, pc, task>>

\* Block::from_prev_header on the header of a genesis block
BlockFromPrevHeader ==
    /\ last.op \in {"new", "verify"}
    /\ \E txx \in BlockTxLists, now \in Nanos :
          last' = Call("from_prev_header", None, Ok,
                       Some(from_prev_header(genesis(ZeroHash, 0).header, txx, now)))
    /\ BlockUnchanged

\* Block::sign
BlockSigning ==
    /\ last.op = "from_prev_header"
    /\ \E k \in PrivateKeys :
          last' = Call("sign", None, Ok, Some(BlockSign(Unwrap(last.out), k)))
    /\ BlockUnchanged

\* Block::verify; the call keeps what was changed since the block last verified
BlockVerifying ==
    /\ last.op \in {"from_prev_header", "sign", "change", "add_transaction"}
    /\ last' = Call("verify",
                    IF last.op \in {"change", "add_transaction"} THEN last.arg ELSE None,
                    BlockVerify(Unwrap(last.out)), last.out)
    /\ BlockUnchanged

\* the holder of a block that verified changes it
BlockChange ==
    /\ last.op = "verify"
    /\ last.res.ok
    /\ \E c \in Changes :
          last' = Call("change", Some(c), Ok, Some(Changed(Unwrap(last.out), c)))
    /\ BlockUnchanged

\* Block::add_transaction on a block that verified
BlockAddTransaction ==
    /\ last.op = "verify"
    /\ last.res.ok
    /\ last' = Call("add_transaction", Some("add_transaction"), Ok,
                    Some(add_transaction(Unwrap(last.out), SignedTx(ProgPush))))
    /\ BlockUnchanged

NextBlock ==
    BlockFromPrevHeader \/ BlockSigning \/ BlockVerifying \/ BlockChange \/ BlockAddTransaction
SpecBlock == InitBlock /\ [][NextBlock]_vars

\* the block a call of verify was made on
Verified == Unwrap(last.out)

\* C28: Block::verify returns Ok only if the validator key and the signature are
\* both there, the signature is the one a holder of the validator's private key
\* makes over the bytes of the header as it is now, every transaction verifies
\* and the data hash computed from the transactions is header.data_hash; after a
\* field of the header was changed or the validator key replaced in a block that
\* verified, verify fails
C28_BlockVerify ==
    last.op = "verify"
        => /\ last.res.ok
                => /\ Verified.validator # None
                   /\ Verified.signature # None
                   /\ \E k \in PrivateKeys :
                         /\ Verified.validator = Some(public_key(k))
                         /\ Verified.signature = Some(sign(k, HeaderBytes(Verified.header)))
                   /\ \A i \in 1..Len(Verified.transactions) :
                         TxVerify(Verified.transactions[i]).ok
                   /\ calculate_data_hash(Verified.transactions) = Verified.header.data_hash
           /\ last.arg \in {Some(c) : c \in HeaderFields \cup {"validator"}}
                => ~last.res.ok

\* test_verify_block: the height of a signed block that verified was set to 100
\* and verify fails
C28_Witness ==
    /\ last.op = "verify"
    /\ last.arg = Some("height")
    /\ Verified.header.height = 100
    /\ last.res = Err("block has invalid signature")

\* C29: every Server builds the same genesis block, so the header a leader holds
\* at height 0 is the one a follower holds, and the first block of the leader
\* passes the test of the previous hash at a follower of height 0
C29_SameGenesis ==
    [][(last'.op = "add_block" /\ last'.arg # None)
        => /\ Unwrap(last'.arg) = get_header(headers, 0)
           /\ get_header(headers, 0).prev_block_hash = ZeroHash
           /\ last'.res.err # "the hash of the previous block is invalid"]_vars

(***************************************************************************)
(* SpecStamp: the server of SpecServer receiving transactions of its peer, *)
(* with every reading Instant::now().elapsed() can give the Tx handler.    *)
(***************************************************************************)
\* the valid transactions the peer sends
StampTxs ==
    {TxSign(NewTransaction(ProgStore), PeerKey),
     TxSign(NewTransaction(ProgPush), PeerKey),
     TxSign(NewTransaction(ProgEmpty), PeerKey)}

\* a transport task forwards a Tx message of the peer to the channel
DeliverTx ==
    /\ Len(rpc_channel) < MaxQueue
    /\ height(headers) < MaxHeight
    /\ \E tx \in StampTxs :
          rpc_channel' = Append(rpc_channel, RPC("P", Message(MsgTx, TxWire(tx))))
    /\ last' = Call("deliver", None, Ok, None)
    /\ UNCHANGED <<machine, peers, consume_channel, locks, pc,
                   headers, contract_state, all, pending, max_length, spawned, task,
                   validator_loop, quit_channel>>

\* one iteration of the loop of Server::start; the handler stamps the
\* transaction with the age of an Instant it has just made, a few nanoseconds
\* that bear no relation to the reading of the call before
DispatchStamped ==
    /\ task = "running"
    /\ rpc_channel # <<>>
    /\ rpc_channel' = Tail(rpc_channel)
    /\ \E d \in {default_rpc_decode_fn(Head(rpc_channel))} :
          IF ~d.ok
          THEN /\ last' = Call("dispatch", None, Err(d.err), None)
               /\ UNCHANGED <<headers, contract_state, all, pending, spawned, task>>
          ELSE \E now \in Nanos, order \in Orders(DOMAIN all) :
               \E r \in {process_message(headers, contract_state, all, pending, max_length,
                                         Unwrap(d.msg), now, order, TRUE)} :
                  /\ Fits(spawned \o r.spawn)
                  /\ headers' = r.headers
                  /\ contract_state' = r.state
                  /\ all' = r.all
                  /\ pending' = r.pending
                  /\ spawned' = spawned \o r.spawn
                  /\ task' = IF r.res = Panicked THEN "panicked" ELSE task
                  /\ last' = Call("dispatch", Some(Unwrap(d.msg).kind), r.res, None)
    /\ UNCHANGED <<machine, peers, consume_channel, locks, pc, max_length, validator_loop, quit_channel>>

NextStamp == DeliverTx \/ DispatchStamped \/ ValidatorTick \/ RunSpawned
SpecStamp == InitServer /\ [][NextStamp]_vars

\* C30: when the Tx handler accepts a transaction, its first_seen is no
\* smaller than the first_seen of any transaction the handler accepted before
\* that is still in the pool, so the snapshots and the eviction, which go by
\* first_seen, follow the order of arrival
C30_FirstSeenMonotonic ==
    [][DispatchingKind("Tx")
        => \A n \in DOMAIN all' \ DOMAIN all :
              \A o \in DOMAIN all : all[o].first_seen <= all'[n].first_seen]_vars

(***************************************************************************)
(* SpecNet: the in-memory transports.  peers maps the address of a         *)
(* transport to the addresses in its peer map (the map holds a clone of    *)
(* the peer's transport, which shares the peer's queue), consume_channel   *)
(* maps it to the RPCs queued for it.                                      *)
(***************************************************************************)
NetAddrs == {"A", "B", "C"}
NetPayloads == {<<102, 111, 111>>}
\* the transports lists a server is built with
TransportLists == {<<"A", "B">>, <<"A", "B", "C">>}

\* LocalTransport::send_message without the test for the own address
send_message_NoSelfTest(channels, peer_map, addr, to, payload) ==
    IF to \notin peer_map[addr]
    THEN [res |-> Err("could not send message"), channels |-> channels]
    ELSE [res |-> Ok,
          channels |-> [channels EXCEPT ![to] = Append(@, RPC(addr, payload))]]

\* LocalTransport::send_message of the transport at addr.  The send on the
\* peer's queue cannot fail: the receiver lives as long as the peer map's clone.
send_message(channels, peer_map, addr, to, payload) ==
    IF addr = to
    THEN [res |-> Ok, channels |-> channels]
    ELSE IF to \notin peer_map[addr]
    THEN [res |-> Err("could not send message"), channels |-> channels]
    ELSE [res |-> Ok,
          channels |-> [channels EXCEPT ![to] = Append(@, RPC(addr, payload))]]

\* LocalTransport::broadcast that returns after the first peer
broadcast_FirstPeerOnly(chans, pmap, sender, bytes, iter) ==
    IF iter = <<>>
    THEN [res |-> Ok, channels |-> chans]
    ELSE send_message(chans, pmap, sender, Head(iter), bytes)

\* LocalTransport::broadcast of the transport at addr: send_message to every
\* peer in the order order the map is iterated in; the ? returns the first error
RECURSIVE broadcast(_, _, _, _, _)
broadcast(channels, peer_map, addr, payload, order) ==
    IF order = <<>>
    THEN [res |-> Ok, channels |-> channels]
    ELSE LET Rest(r) == IF ~r.res.ok THEN r
                        ELSE broadcast(r.channels, peer_map, addr, payload, Tail(order))
         IN Rest(send_message(channels, peer_map, addr, Head(order), payload))

\* the orders the peer maps of the transports of a list may be iterated in, one
\* for each transport of the list
RECURSIVE PeerOrders(_, _)
PeerOrders(peer_map, transports) ==
    IF transports = <<>> THEN {<<>>}
    ELSE {<<order>> \o rest : order \in Orders(peer_map[Head(transports)]),
                              rest \in PeerOrders(peer_map, Tail(transports))}

\* Server::broadcast: broadcast through every transport of the list; the ?
\* returns the first error
RECURSIVE ServerBroadcast(_, _, _, _, _)
ServerBroadcast(channels, peer_map, transports, payload, orders) ==
    IF transports = <<>>
    THEN [res |-> Ok, channels |-> channels]
    ELSE LET Rest(r) == IF ~r.res.ok THEN r
                        ELSE ServerBroadcast(r.channels, peer_map, Tail(transports),
                                             payload, Tail(orders))
         IN Rest(broadcast(channels, peer_map, Head(transports), payload, Head(orders)))

\* the RPCs queued on all transports
RECURSIVE InFlightOf(_, _)
InFlightOf(channels, addrs) ==
    IF addrs = {} THEN 0
    ELSE LET a == CHOOSE x \in addrs : TRUE
         IN Len(channels[a]) + InFlightOf(channels, addrs \ {a})
InFlight(channels) == InFlightOf(channels, NetAddrs)

\* what a call on a transport was made with
NetArg(addr, to, payload, transports) ==
    Some([addr |-> addr, to |-> to, payload |-> payload, transports |-> transports])

InitNet ==
    /\ peers = [a \in NetAddrs |-> {}]
    /\ consume_channel = [a \in NetAddrs |-> <<>>]
    /\ machine = None
    /\ locks = None
    /\ pc = None
    /\ headers = <<>>
    /\ contract_state = EmptyMap
    /\ all = EmptyMap
    /\ pending = EmptyMap
    /\ max_length = 0
    /\ rpc_channel = <<>>
    /\ spawned = <<>>
    /\ validator_loop = "off"
    /\ quit_channel = <<>>
    /\ task = "running"
    /\ last = NoCall

NetUnchanged ==
    UNCHANGED <<headers, contract_state, all, pending, max_length, rpc_channel, spawned,
                task, validator_loop, quit_channel, machine, locks, pc>>

\* LocalTransport::connect: the transport at a takes the one at b into its map
NetConnect ==
    /\ \E a \in NetAddrs : \E b \in NetAddrs \ {a} :
          /\ peers' = [peers EXCEPT ![a] = @ \cup {b}]
          /\ last' = Call("connect", NetArg(a, b, <<>>, <<>>), Ok, None)
    /\ UNCHANGED consume_channel
    /\ NetUnchanged

NetSendMessage ==
    /\ \E a \in NetAddrs, to \in NetAddrs, payload \in NetPayloads :
       \E r \in {send_message(consume_channel, peers, a, to, payload)} :
          /\ InFlight(r.channels) <= MaxInFlight
          /\ consume_channel' = r.channels
          /\ last' = Call("send_message", NetArg(a, to, payload, <<>>), r.res, None)
    /\ UNCHANGED peers
    /\ NetUnchanged

NetBroadcast ==
    /\ \E a \in NetAddrs, payload \in NetPayloads : \E order \in Orders(peers[a]) :
       \E r \in {broadcast(consume_channel, peers, a, payload, order)} :
          /\ InFlight(r.channels) <= MaxInFlight
          /\ consume_channel' = r.channels
          /\ last' = Call("broadcast", NetArg(a, "", payload, <<>>), r.res, None)
    /\ UNCHANGED peers
    /\ NetUnchanged

NetServerBroadcast ==
    /\ \E transports \in TransportLists, payload \in NetPayloads :
       \E orders \in PeerOrders(peers, transports) :
       \E r \in {ServerBroadcast(consume_channel, peers, transports, payload, orders)} :
          /\ InFlight(r.channels) <= MaxInFlight
          /\ consume_channel' = r.channels
          /\ last' = Call("Server::broadcast", NetArg("", "", payload, transports),
                          r.res, None)
    /\ UNCHANGED peers
    /\ NetUnchanged

\* LocalTransport::recv: the transport at a takes the RPC at the head of its queue
NetRecv ==
    /\ \E a \in NetAddrs :
          /\ consume_channel[a] # <<>>
          /\ consume_channel' = [consume_channel EXCEPT ![a] = Tail(@)]
          /\ last' = Call("recv", NetArg(a, "", <<>>, <<>>), Ok,
                          Some(Head(consume_channel[a])))
    /\ UNCHANGED peers
    /\ NetUnchanged

NextNet == NetConnect \/ NetSendMessage \/ NetBroadcast \/ NetServerBroadcast \/ NetRecv
SpecNet == InitNet /\ [][NextNet]_vars

(***************************************************************************)
(* Claims about the transports, checked under SpecNet.                     *)
(***************************************************************************)
\* what the call of the step was made with
NetCall == Unwrap(last'.arg)
\* the RPCs a list of transports sends the transport at p, in the list's order
SentBy(transports, p, payload) ==
    LET senders == SelectSeq(transports, LAMBDA t : p \in peers[t])
    IN [i \in 1..Len(senders) |-> RPC(senders[i], payload)]

\* C21: send_message(to, payload) of a transport puts exactly one
\* RPC{from = the sender's address, payload} at the end of the queue of to and
\* changes no other queue when to is in the sender's peer map; it returns Ok and
\* changes no queue when to is the sender's own address; it returns an error and
\* changes no queue when to is neither
C21_SendMessage ==
    [][last'.op = "send_message"
        => IF NetCall.to = NetCall.addr
           THEN last'.res = Ok /\ consume_channel' = consume_channel
           ELSE IF NetCall.to \in peers[NetCall.addr]
           THEN /\ last'.res = Ok
                /\ consume_channel' =
                      [consume_channel EXCEPT
                          ![NetCall.to] = Append(@, RPC(NetCall.addr, NetCall.payload))]
           ELSE ~last'.res.ok /\ consume_channel' = consume_channel]_vars

\* a send to a connected peer has put its RPC on the peer's queue
C21_Witness ==
    /\ last.op = "send_message"
    /\ last.res = Ok
    /\ Unwrap(last.arg).to \in peers[Unwrap(last.arg).addr]
    /\ consume_channel[Unwrap(last.arg).to]
          = <<RPC(Unwrap(last.arg).addr, Unwrap(last.arg).payload)>>
    /\ \A a \in NetAddrs \ {Unwrap(last.arg).to} : consume_channel[a] = <<>>

OfferBlock ==
    /\ task = "running"
    /\ \E b \in OddBlocks(headers) :
          \E r \in {add_block(headers, contract_state, b, FALSE)} :
             /\ r.res.ok => height(headers) < MaxHeight
             /\ headers' = r.headers
             /\ contract_state' = r.state
             /\ task' = IF r.res = Panicked THEN "panicked" ELSE task
             /\ last' = Call("add_block", Some(b), r.res, None)
    /\ UNCHANGED <<machine, peers, consume_channel, locks, pc,
                   all, pending, max_length, rpc_channel, spawned, validator_loop,
                   quit_channel>>

NextOffer == OfferBlock
SpecOffer == Init /\ [][NextOffer]_vars

\* the block the add_block call of the step was made with
Offered == Unwrap(last'.arg)
TipHash == BlockHasher(headers[Len(headers)])

\* C31: add_block reports the first failing test of the order: a block of a
\* height up to the current height is "already known", whatever its signature,
\* previous hash and data hash (so also every block of height 0, without a
\* panic); a higher block that is not at height + 1 is "too high"; a block at
\* height + 1 with another previous hash than the tip's hash has an invalid
\* previous hash; only then the errors of Block::verify are reported.  A block
\* the validator rejects leaves the chain and the contract state as they were.
C31_ValidationOrder ==
    [][last'.op = "add_block"
        => LET expected ==
                  IF Offered.header.height <= height(headers)
                  THEN Err("block already known")
                  ELSE IF Offered.header.height # height(headers) + 1
                  THEN Err("block too high")
                  ELSE IF Offered.header.prev_block_hash # TipHash
                  THEN Err("the hash of the previous block is invalid")
                  ELSE BlockVerify(Offered)
           IN IF expected.ok THEN last'.res.err \notin ValidatorErrors
              ELSE /\ last'.res = expected
                   /\ headers' = headers
                   /\ contract_state' = contract_state
                   /\ task' = task]_vars

\* an unsigned block of height 0 with a wrong previous hash and a wrong data
\* hash was offered to a chain of height 1 or more and found already known
C31_Witness ==
    /\ last.op = "add_block"
    /\ last.arg # None
    /\ Unwrap(last.arg).header.height = 0
    /\ height(headers) >= 1
    /\ Unwrap(last.arg).signature = None
    /\ Unwrap(last.arg).header.data_hash = WrongHash
    /\ Unwrap(last.arg).header.prev_block_hash # BlockHasher(headers[Len(headers)])
    /\ last.res = Err("block already known")

\* an iteration of the loop of VM::run
Iterating ==
    /\ task = "running"
    /\ machine.status = "running"
    /\ machine'.data = machine.data
    /\ machine'.ip # machine.ip \/ machine'.status # machine.status

\* C32: run terminates for every program, the empty one included: an
\* iteration never aborts the run; it either ends the run with the error of the
\* instruction at ip, or moves ip on by exactly one, and then run goes on while
\* ip is an index of the program and returns once it has passed the last one
C32_RunTerminates ==
    [][Iterating
        => /\ machine'.status # "panic"
           /\ machine'.status = "err"
                 => machine.ip < Len(machine.data)
                    /\ machine.data[machine.ip + 1] \in Instructions
           /\ Going(machine') => machine'.ip = machine.ip + 1
           /\ machine'.status = "running" => machine'.ip < Len(machine.data)
           /\ machine'.status = "ok" => machine'.ip >= Len(machine.data)]_vars

(***************************************************************************)
(* SpecHash: a block is built or decoded from the wire, and then hashed    *)
(* and changed by its holder.  last.out holds the block, last.arg the hash *)
(* a call of Block::hash returned.                                         *)
(***************************************************************************)
\* Block::hash: the block after the call; the call returns its hash field
BlockHash(b) ==
    IF is_zero(b.hash) THEN [b EXCEPT !.hash = BlockHasher(b.header)] ELSE b

\* the hash fields a block arrives with: none, the one of its header, another
CarriedHashes(b) == {ZeroHash, BlockHasher(b.header), WrongHash}

\* Block::from_prev_header on the header of a genesis block
HashBuild ==
    /\ last.op \in {"new", "hash"}
    /\ \E txx \in BlockTxLists, now \in Nanos :
          last' = Call("from_prev_header", None, Ok,
                       Some(from_prev_header(genesis(ZeroHash, 0).header, txx, now)))
    /\ BlockUnchanged

\* Block::decode of the bytes a peer sent: every field is taken from the bytes,
\* the hash field included
HashDecode ==
    /\ last.op \in {"new", "hash"}
    /\ \E txx \in BlockTxLists, k \in PrivateKeys :
       \E b \in {BlockSign(from_prev_header(genesis(ZeroHash, 0).header, txx, 0), k)} :
       \E h \in CarriedHashes(b) :
          last' = Call("decode", None, Ok,
                       Some(BlockUnwire([BlockWire(b) EXCEPT !.hash = h])))
    /\ BlockUnchanged

\* Block::hash
HashCall ==
    /\ last.op # "new"
    /\ \E b \in {BlockHash(Unwrap(last.out))} :
          last' = Call("hash", Some(b.hash), Ok, Some(b))
    /\ BlockUnchanged

\* the headers of the blocks as built
BuiltHeaders ==
    {from_prev_header(genesis(ZeroHash, 0).header, txx, now).header :
        txx \in BlockTxLists, now \in Nanos}

\* the holder of a block that still has a header as built changes a field of it
HashChange ==
    /\ last.op # "new"
    /\ Unwrap(last.out).header \in BuiltHeaders
    /\ \E c \in HeaderFields :
          last' = Call("change", None, Ok, Some(Changed(Unwrap(last.out), c)))
    /\ BlockUnchanged

NextHash == HashBuild \/ HashDecode \/ HashCall \/ HashChange
SpecHash == InitBlock /\ [][NextHash]_vars

\* C33: Block::hash returns the hash of the header the block has at the call,
\* also after a field of the header was changed and for a block decoded from
\* the wire
C33_HashIsCurrent ==
    last.op = "hash" => Unwrap(last.arg) = BlockHasher(Unwrap(last.out).header)

(***************************************************************************)
(* Claims about the contract state of a chain, checked under Spec.         *)
(***************************************************************************)
\* the transactions of the block of a header of the chain: Block::verify has
\* compared their data hash with the header's, which tells the list apart
TransactionsOf(header) ==
    CHOOSE txx \in TxLists : calculate_data_hash(txx) = header.data_hash

\* the contract state after the transactions of the blocks of the first n
\* headers were executed in chain order, each once, from the empty state
RECURSIVE Replayed(_, _)
Replayed(p_headers, n) ==
    IF n <= 1 THEN EmptyMap
    ELSE run_transactions(TransactionsOf(p_headers[n]), Replayed(p_headers, n - 1),
                          FALSE).state

\* C35: the contract state is the result of executing, in chain order and each
\* once, the transactions of exactly the blocks whose headers are in the chain
C35_StateIsReplay == contract_state = Replayed(headers, Len(headers))

\* C36: in every state of a TxPool every pending hash is in `all` (has(hash)
\* holds for it), so pending holds at most max_length transactions
C36_PendingWithinAll ==
    /\ \A h \in DOMAIN pending : TxPoolHas(all, h)
    /\ MapLen(pending) <= max_length

(***************************************************************************)
(* SpecLeader: the server started with a private key, receiving correctly  *)
(* signed transactions.  The ticker of the validator loop fires again and  *)
(* again, and the runtime runs every task that can run.                    *)
(***************************************************************************)
\* correctly signed transactions: three whose programs run, one whose program
\* reads a key that is not in the contract state
ProgPushOther == <<4, PushInt>>
LeaderTxs ==
    {TxSign(NewTransaction(ProgStore), PeerKey),
     TxSign(NewTransaction(ProgPush), PeerKey),
     TxSign(NewTransaction(ProgPushOther), PeerKey),
     TxSign(NewTransaction(ProgGetAbsent), PeerKey)}

InitLeader == InitServer /\ validator_loop = "ticking"

\* a transport task forwards a Tx message of the peer to the channel
DeliverLeaderTx ==
    /\ Len(rpc_channel) < MaxQueue
    /\ height(headers) < MaxHeight
    /\ \E tx \in LeaderTxs :
          rpc_channel' = Append(rpc_channel, RPC("P", Message(MsgTx, TxWire(tx))))
    /\ last' = Call("deliver", None, Ok, None)
    /\ UNCHANGED <<machine, peers, consume_channel, locks, pc,
                   headers, contract_state, all, pending, max_length, spawned, task,
                   validator_loop, quit_channel>>

NextLeader == DeliverLeaderTx \/ Dispatch \/ ValidatorTick \/ RunSpawned
SpecLeader ==
    /\ InitLeader
    /\ [][NextLeader]_vars
    /\ WF_vars(ValidatorTick)
    /\ WF_vars(Dispatch)
    /\ WF_vars(RunSpawned)

\* what a tick of the validator loop would do in this state
TickNow ==
    {create_new_block(headers, contract_state, all, pending, ServerKey, now, order, TRUE) :
        now \in ServerNanos, order \in Orders(DOMAIN pending)}

\* C37: whatever correctly signed transactions the Tx handler has accepted, a
\* failed tick is not repeated forever: it leaves the validator loop running,
\* in a state in which a tick appends a block or at least changes the chain,
\* the contract state or the pool, so that ticks alone lead to a new block
C37_LeaderProgress ==
    (last.op = "create_new_block" /\ ~last.res.ok)
        => /\ validator_loop = "ticking"
           /\ \E r \in TickNow :
                 \/ r.res.ok
                 \/ <<r.headers, r.state, r.all, r.pending>>
                       # <<headers, contract_state, all, pending>>

\* the transaction lists a block of the leader can hold, and the hashes of the
\* transactions of the block of a header of the chain (its data hash tells the
\* list apart)
LeaderTxLists == UNION {Orders(txs) : txs \in SUBSET LeaderTxs}
IncludedIn(header) ==
    LET txx == CHOOSE l \in LeaderTxLists : calculate_data_hash(l) = header.data_hash
    IN {TxHasher(txx[i]) : i \in 1..Len(txx)}

\* C38: a transaction is in at most one block of the leader's chain, and a
\* transaction that is in a block of the chain is not pending again
C38_IncludedOnce ==
    /\ \A i, j \in 2..Len(headers) :
          i < j => IncludedIn(headers[i]) \cap IncludedIn(headers[j]) = {}
    /\ \A i \in 2..Len(headers) : \A h \in IncludedIn(headers[i]) : h \notin DOMAIN pending

(***************************************************************************)
(* Claims about the blocks a server appends, checked under SpecServer.     *)
(***************************************************************************)
\* C39: a node appends only blocks signed by the leader.  On the node that is
\* the leader itself (its validator loop runs with the server's private key), a
\* received block whose validator is another key is rejected and not appended,
\* also when its height, previous hash, data hash and signature are right.
C39_OnlyLeaderBlocks ==
    [][(/\ DispatchingKind("Block")
        /\ validator_loop = "ticking"
        /\ InboxBody.validator # Some(public_key(ServerKey)))
        => headers' = headers /\ ~last'.res.ok]_vars

(***************************************************************************)
(* SpecLocks: the tasks of one Server at the grain of their awaits.  The   *)
(* chain and the pool are each behind a tokio Mutex, which hands its guard *)
(* to the waiting tasks first in, first out; a guard is released when it   *)
(* is dropped, also when the task that holds it panics.  The validator     *)
(* loop, the loop of Server::start and a detached get_status task run      *)
(* interleaved; Blockchain::add_block is a step for validate_block, a step *)
(* for the VM and the push of the header.                                  *)
(***************************************************************************)
\* Server::process_block calling add_block on the chain without its guard
process_block_locks_None == <<>>
\* Server::process_transaction taking the guard of the chain after the pool's
process_transaction_locks_ThenChain == <<"mem_pool", "chain">>

\* the guards a task takes, in the order of its code
validator_loop_locks == <<"chain", "mem_pool">>
process_transaction_locks == <<"mem_pool">>
process_block_locks == <<"chain">>
process_status_message_locks == <<"chain">>
process_get_status_message_locks == <<"chain">>

LockTasks == {"validator_loop", "start", "get_status"}
LockNames == {"chain", "mem_pool"}

\* Mutex::lock: the task joins the queue of the lock; the first of the queue
\* holds the guard
MutexLock(l, name, t) == [l EXCEPT ![name] = Append(@, t)]
Holds(l, name, t) == l[name] # <<>> /\ Head(l[name]) = t
\* the drop of the guards of a task
DropGuards(l, t) ==
    [name \in LockNames |-> IF Holds(l, name, t) THEN Tail(l[name]) ELSE l[name]]

\* a task at a place of its code: the guards it has still to take, the block it
\* works on, the message it handles
At(at, need, block, msg) == [at |-> at, need |-> need, block |-> block, msg |-> msg]
Idle(at) == At(at, <<>>, None, None)
\* the place of a task that goes for its guards and then on to `then`
Locking(need, then, block, msg) ==
    IF need = <<>> THEN At(then, <<>>, block, msg) ELSE At("lock", need, block, msg)
\* where a task goes on when it has its guards
Then(t, p) ==
    IF t = "validator_loop" THEN "create"
    ELSE IF t = "get_status" THEN "read"
    ELSE IF Unwrap(p.msg).kind = "Block" THEN "validate"
    ELSE "handle"

\* the RPCs the peers put on the channel: a transaction, blocks on the tip (one
\* of them with a transaction the VM panics on), a status and a request for
\* the status
LockTxs == {TxSign(NewTransaction(ProgPush), PeerKey)}
LockBlocks(p_headers) ==
    {BlockSign(from_prev_header(p_headers[Len(p_headers)], txx, 0), PeerKey) :
        txx \in {<<>>, <<SignedTx(ProgEmpty)>>}}
LockInbound(p_headers) ==
    {RPC("P", Message(MsgStatus, StatusMessage("P", 0, MaxHeight))),
     RPC("Q", Message(MsgGetStatus, GetStatusMessage))}
    \cup {RPC("P", Message(MsgTx, TxWire(tx))) : tx \in LockTxs}
    \cup {RPC("P", Message(MsgBlock, BlockWire(b))) : b \in LockBlocks(p_headers)}

InitLocks ==
    /\ headers = add_block_without_validation(<<>>, genesis(21, 0))
    /\ contract_state = EmptyMap
    /\ all = EmptyMap
    /\ pending = EmptyMap
    /\ max_length = MaxLen
    /\ rpc_channel = <<>>
    /\ spawned = <<>>
    /\ task = "running"
    /\ validator_loop = "ticking"
    /\ quit_channel = <<>>
    /\ machine = None
    /\ peers = EmptyMap
    /\ consume_channel = EmptyMap
    /\ locks = [name \in LockNames |-> <<>>]
    /\ pc = [t \in LockTasks |->
                Idle(CASE t = "validator_loop" -> "tick" [] t = "start" -> "recv"
                       [] t = "get_status" -> "idle")]
    /\ last = NoCall

\* a transport task forwards an RPC of a peer to the channel
LockDeliver ==
    /\ Len(rpc_channel) < MaxQueue
    /\ Len(headers) < MaxHeight
    /\ \E rpc \in LockInbound(headers) : rpc_channel' = Append(rpc_channel, rpc)
    /\ last' = Call("deliver", None, Ok, None)
    /\ UNCHANGED <<headers, contract_state, all, pending, max_length, spawned, task,
                   validator_loop, quit_channel, machine, peers, consume_channel, locks, pc>>

\* the ticker of Server::validator_loop fires
LockTick ==
    /\ pc["validator_loop"].at = "tick"
    /\ Len(headers) < MaxHeight
    /\ pc' = [pc EXCEPT !["validator_loop"] = Locking(validator_loop_locks, "create", None, None)]
    /\ last' = Call("tick", Some("validator_loop"), Ok, None)
    /\ UNCHANGED <<headers, contract_state, all, pending, max_length, rpc_channel, spawned,
                   task, validator_loop, quit_channel, machine, peers, consume_channel, locks>>

\* the loop of Server::start takes an RPC from its channel and decodes it;
\* process_message goes to the handler of its kind, which caches the hashes of
\* the transactions before it takes a guard
LockRecv ==
    /\ pc["start"].at = "recv"
    /\ rpc_channel # <<>>
    /\ rpc_channel' = Tail(rpc_channel)
    /\ \E d \in {default_rpc_decode_fn(Head(rpc_channel))} :
          IF ~d.ok
          THEN /\ last' = Call("recv", Some("start"), Err(d.err), None)
               /\ UNCHANGED <<spawned, pc>>
          ELSE LET msg == Unwrap(d.msg)
                   cached(b) == [b EXCEPT !.transactions =
                                    [i \in 1..Len(b.transactions) |->
                                        calculate_and_cache_hash(b.transactions[i])]]
               IN /\ last' = Call("recv", Some("start"), Ok, None)
                  /\ CASE msg.kind = "Tx" ->
                            /\ pc' = [pc EXCEPT !["start"] =
                                         Locking(process_transaction_locks, "handle", None, d.msg)]
                            /\ UNCHANGED spawned
                       [] msg.kind = "Block" ->
                            /\ pc' = [pc EXCEPT !["start"] =
                                         Locking(process_block_locks, "validate",
                                                 Some(cached(msg.body)), d.msg)]
                            /\ UNCHANGED spawned
                       [] msg.kind = "StatusMessage" ->
                            /\ pc' = [pc EXCEPT !["start"] =
                                         Locking(process_status_message_locks, "handle", None, d.msg)]
                            /\ UNCHANGED spawned
                       [] msg.kind = "GetStatusMessage" ->
                            /\ Fits(spawned \o <<GetStatusTask(msg.from)>>)
                            /\ spawned' = spawned \o <<GetStatusTask(msg.from)>>
                            /\ UNCHANGED pc
                       [] msg.kind = "GetBlocksMessage" -> UNCHANGED <<spawned, pc>>
    /\ UNCHANGED <<headers, contract_state, all, pending, max_length, task, validator_loop,
                   quit_channel, machine, peers, consume_channel, locks>>

\* a detached task of process_get_status_message starts to run
LockGetStatusStart ==
    /\ pc["get_status"].at = "idle"
    /\ \E i \in 1..Len(spawned) :
          /\ spawned[i].kind = "get_status"
          /\ spawned' = SubSeq(spawned, 1, i - 1) \o SubSeq(spawned, i + 1, Len(spawned))
          /\ pc' = [pc EXCEPT !["get_status"] =
                       Locking(process_get_status_message_locks, "read", None,
                               Decoded(Unwrap(spawned[i].to), "GetStatusMessage", None).msg)]
    /\ last' = Call("spawned", Some("get_status"), Ok, None)
    /\ UNCHANGED <<headers, contract_state, all, pending, max_length, rpc_channel, task,
                   validator_loop, quit_channel, machine, peers, consume_channel, locks>>

\* a detached send or broadcast hands its message to the transport
LockSend ==
    /\ \E i \in 1..Len(spawned) :
          /\ spawned[i].kind # "get_status"
          /\ spawned' = SubSeq(spawned, 1, i - 1) \o SubSeq(spawned, i + 1, Len(spawned))
    /\ last' = Call("spawned", Some("send"), Ok, None)
    /\ UNCHANGED <<headers, contract_state, all, pending, max_length, rpc_channel, task,
                   validator_loop, quit_channel, machine, peers, consume_channel, locks, pc>>

\* a task calls lock() on the next Mutex of its code
LockAcquire(t) ==
    /\ pc[t].at = "lock"
    /\ locks' = MutexLock(locks, Head(pc[t].need), t)
    /\ pc' = [pc EXCEPT ![t].at = "wait"]
    /\ last' = Call("lock", Some(t), Ok, Some(Head(pc[t].need)))
    /\ UNCHANGED <<headers, contract_state, all, pending, max_length, rpc_channel, spawned,
                   task, validator_loop, quit_channel, machine, peers, consume_channel>>

\* lock() returns the guard to the task that is first in the queue
LockGranted(t) ==
    /\ pc[t].at = "wait"
    /\ Holds(locks, Head(pc[t].need), t)
    /\ pc' = [pc EXCEPT ![t] = Locking(Tail(pc[t].need), Then(t, pc[t]), pc[t].block, pc[t].msg)]
    /\ last' = Call("guard", Some(t), Ok, Some(Head(pc[t].need)))
    /\ UNCHANGED <<headers, contract_state, all, pending, max_length, rpc_channel, spawned,
                   task, validator_loop, quit_channel, machine, peers, consume_channel, locks>>

\* create_new_block up to the call of add_block: the tip, the pending
\* transactions, the block on them and its signature
LockCreate ==
    /\ pc["validator_loop"].at = "create"
    /\ \E now \in ServerNanos, order \in Orders(DOMAIN pending) :
          LET prev_header == get_header(headers, height(headers))
              txx == pending_cloned(pending, order)
              block == BlockSign(from_prev_header(prev_header, txx, now), ServerKey)
          IN pc' = [pc EXCEPT !["validator_loop"] = At("validate", <<>>, Some(block), None)]
    /\ last' = Call("create", Some("validator_loop"), Ok, None)
    /\ UNCHANGED <<headers, contract_state, all, pending, max_length, rpc_channel, spawned,
                   task, validator_loop, quit_channel, machine, peers, consume_channel, locks>>

\* the place of a task that is through with what it took its guards for
Home(t) == Idle(CASE t = "validator_loop" -> "tick" [] t = "start" -> "recv"
                  [] t = "get_status" -> "idle")

\* add_block of the task's block: validate_block.  An error returns through
\* create_new_block or process_block, which drops the guards.
LockValidate(t) ==
    /\ pc[t].at = "validate"
    /\ \E r \in {validate_block(headers, Unwrap(pc[t].block))} :
          /\ last' = Call("validate_block", Some(t), r, None)
          /\ IF r.ok
             THEN pc' = [pc EXCEPT ![t].at = "run"] /\ UNCHANGED locks
             ELSE pc' = [pc EXCEPT ![t] = Home(t)] /\ locks' = DropGuards(locks, t)
    /\ UNCHANGED <<headers, contract_state, all, pending, max_length, rpc_channel, spawned,
                   task, validator_loop, quit_channel, machine, peers, consume_channel>>

\* add_block of the task's block: the transactions in the VM.  An error returns
\* as that of validate_block does; a panic ends the task and drops its guards.
LockRun(t) ==
    /\ pc[t].at = "run"
    /\ \E ran \in {run_transactions(Unwrap(pc[t].block).transactions, contract_state, TRUE)} :
          /\ contract_state' = ran.state
          /\ last' = Call("run", Some(t),
                          IF ran.status = "ok" THEN Ok
                          ELSE IF ran.status = "panic" THEN Panicked ELSE Err(ran.err), None)
          /\ pc' = [pc EXCEPT ![t] = IF ran.status = "ok" THEN [pc[t] EXCEPT !.at = "push"]
                                     ELSE IF ran.status = "panic" THEN Idle("panicked")
                                     ELSE Home(t)]
          /\ locks' = IF ran.status = "ok" THEN locks ELSE DropGuards(locks, t)
          /\ task' = IF t = "start" /\ ran.status = "panic" THEN "panicked" ELSE task
          /\ validator_loop' = IF t = "validator_loop" /\ ran.status = "panic"
                               THEN "panicked" ELSE validator_loop
    /\ UNCHANGED <<headers, all, pending, max_length, rpc_channel, spawned,
                   quit_channel, machine, peers, consume_channel>>

\* add_block of the task's block: add_block_without_validation, and what the
\* caller does when add_block has returned Ok: create_new_block clears the
\* pending transactions, both spawn the broadcast of the block, the guards drop
LockPush(t) ==
    /\ pc[t].at = "push"
    /\ Fits(spawned \o <<broadcast_block(Unwrap(pc[t].block))>>)
    /\ headers' = add_block_without_validation(headers, Unwrap(pc[t].block))
    /\ pending' = IF t = "validator_loop" THEN TxPoolClearPending(all, pending).pending
                  ELSE pending
    /\ spawned' = spawned \o <<broadcast_block(Unwrap(pc[t].block))>>
    /\ locks' = DropGuards(locks, t)
    /\ pc' = [pc EXCEPT ![t] = Home(t)]
    /\ last' = Call("push", Some(t), Ok, None)
    /\ UNCHANGED <<contract_state, all, max_length, rpc_channel, task, validator_loop,
                   quit_channel, machine, peers, consume_channel>>

\* process_transaction and process_status_message under their guard
LockHandle ==
    /\ pc["start"].at = "handle"
    /\ \E now \in ServerNanos, order \in Orders(DOMAIN all) :
       \E r \in {process_message(headers, contract_state, all, pending, max_length,
                                 Unwrap(pc["start"].msg), now, order, TRUE)} :
          /\ Fits(spawned \o r.spawn)
          /\ all' = r.all
          /\ pending' = r.pending
          /\ spawned' = spawned \o r.spawn
          /\ last' = Call("handle", Some("start"), r.res, None)
    /\ locks' = DropGuards(locks, "start")
    /\ pc' = [pc EXCEPT !["start"] = Home("start")]
    /\ UNCHANGED <<headers, contract_state, max_length, rpc_channel, task, validator_loop,
                   quit_channel, machine, peers, consume_channel>>

\* process_get_status_message under the guard of the chain
LockRead ==
    /\ pc["get_status"].at = "read"
    /\ \E reply \in {process_get_status_message(headers, Unwrap(pc["get_status"].msg).from)} :
          /\ Fits(spawned \o <<reply>>)
          /\ spawned' = spawned \o <<reply>>
    /\ locks' = DropGuards(locks, "get_status")
    /\ pc' = [pc EXCEPT !["get_status"] = Home("get_status")]
    /\ last' = Call("read", Some("get_status"), Ok, None)
    /\ UNCHANGED <<headers, contract_state, all, pending, max_length, rpc_channel, task,
                   validator_loop, quit_channel, machine, peers, consume_channel>>

\* the steps of a task: the runtime runs a task that can go on
TaskStep(t) ==
    \/ LockAcquire(t)
    \/ LockGranted(t)
    \/ t = "validator_loop" /\ LockTick
    \/ t = "validator_loop" /\ LockCreate
    \/ t = "start" /\ LockRecv
    \/ t = "start" /\ LockHandle
    \/ t = "get_status" /\ LockGetStatusStart
    \/ t = "get_status" /\ LockRead
    \/ t # "get_status" /\ LockValidate(t)
    \/ t # "get_status" /\ LockRun(t)
    \/ t # "get_status" /\ LockPush(t)

NextLocks == LockDeliver \/ LockSend \/ \E t \in LockTasks : TaskStep(t)
SpecLocks == InitLocks /\ [][NextLocks]_vars

(***************************************************************************)
(* Claims about the guards of the chain and the pool, checked under        *)
(* SpecLocks.                                                              *)
(***************************************************************************)
\* the task is in Blockchain::add_block with its block
InAddBlock(t) == pc[t].at \in {"validate", "run", "push"}
\* what validate_block says of a block that is not the one after the tip
TipMoved ==
    {"block already known", "block too high", "the hash of the previous block is invalid"}

\* C34: the block production of the validator loop and the handling of a
\* received block exclude each other on the chain: the two tasks are never both
\* in add_block, the chain holds one header for each height, and from the moment
\* a tick has built its block to the moment it is pushed the block is the one
\* after the tip, so that validate_block never rejects it for the tip having
\* moved.
C34_ChainExclusive ==
    /\ ~(InAddBlock("validator_loop") /\ InAddBlock("start"))
    /\ \A i \in 1..Len(headers) : headers[i].height = i - 1
    /\ InAddBlock("validator_loop") =>
          /\ Unwrap(pc["validator_loop"].block).header.height = height(headers) + 1
          /\ Unwrap(pc["validator_loop"].block).header.prev_block_hash
                = BlockHasher(headers[Len(headers)])
    /\ (last.op = "validate_block" /\ last.arg = Some("validator_loop"))
          => last.res.err \notin TipMoved

\* the tick has pushed its block while the handler of a received block was
\* waiting for the guard of the chain
C34_Witness ==
    /\ last.op = "push"
    /\ last.arg = Some("validator_loop")
    /\ pc["start"].at = "wait"
    /\ IsSome(pc["start"].block)

\* the task waits for the guard of the lock
Waits(t, name) == pc[t].at = "wait" /\ Head(pc[t].need) = name /\ ~Holds(locks, name, t)
\* the task waits for a guard that the other task holds
WaitsFor(t, u) == \E name \in LockNames : Waits(t, name) /\ Holds(locks, name, u)
\* the task waits on a channel, on the ticker, or has ended
Parked(t) == pc[t].at \in {"tick", "recv", "idle", "panicked"}
\* the guards the task holds
Guards(t) == {name \in LockNames : Holds(locks, name, t)}

\* the next step of the task is its own: it waits neither for a guard nor on a
\* channel
CanGo(t) == ~Parked(t) /\ \A name \in LockNames : ~Waits(t, name)
\* how far the task is on its way from its first lock() to the drop of its guards
Stage(p) ==
    CASE p.at = "lock" -> 4 - 2 * Len(p.need)
      [] p.at = "wait" -> 5 - 2 * Len(p.need)
      [] p.at \in {"create", "handle", "read"} -> 5
      [] p.at = "validate" -> 6
      [] p.at = "run" -> 7
      [] p.at = "push" -> 8
      [] OTHER -> 0
\* the place of the task in the queue of the lock
Place(q, t) == CHOOSE i \in 1..Len(q) : q[i] = t

\* C40: the tasks of a server do not deadlock.  No task holds a guard while it
\* waits on a channel; a task that waits for the chain holds no guard and one
\* that waits for the pool holds at most the chain; a task that waits for a
\* guard waits for a task whose next step is its own, or for one that waits for
\* such a task; a task that holds a guard only moves on towards dropping it; and
\* a waiting task only moves up in the queue.  So every task that waits for a
\* guard gets it after finitely many steps of the tasks before it.
C40_NoDeadlock ==
    /\ [](\A t \in LockTasks :
             /\ Parked(t) => Guards(t) = {}
             /\ Waits(t, "chain") => Guards(t) = {}
             /\ Waits(t, "mem_pool") => Guards(t) \subseteq {"chain"}
             /\ \A u \in LockTasks :
                   WaitsFor(t, u) =>
                      \/ CanGo(u)
                      \/ \E v \in LockTasks : WaitsFor(u, v) /\ CanGo(v))
    /\ [][\A t \in LockTasks :
             /\ (Guards(t) # {} /\ pc'[t] # pc[t])
                   => \/ Stage(pc'[t]) > Stage(pc[t])
                      \/ \A name \in LockNames : ~Holds(locks', name, t)
             /\ \A name \in LockNames :
                   Waits(t, name) =>
                      \/ Holds(locks', name, t)
                      \/ /\ Waits(t, name)'
                         /\ Place(locks'[name], t) <= Place(locks[name], t)]_vars

\* the validator loop holds the chain and waits for the pool, which the handler
\* of a transaction holds, and a get_status task waits for the chain
C40_Witness ==
    /\ WaitsFor("validator_loop", "start")
    /\ WaitsFor("get_status", "validator_loop")
====
